---- MODULE Spec2Model ----
(***************************************************************************)
(* A model of the indiescore answer-sheet grader:                          *)
(*   - AnswerKeyBuilder            (src/answer_key_manager.py)             *)
(*   - SimpleHybridDemo            (src/simple_demo.py)                    *)
(*   - improved_position_to_choice (src/results/improved_position_mapper.py)*)
(*   - calibrate_positions         (src/calibrate_positions.py)            *)
(*   - process_batch               (src/simple_demo.py,                    *)
(*                                  src/hybrid_scorer.py)                  *)
(*   - generate_performance_report (src/main_hybrid.py)                    *)
(*   - HybridOMRScorer             (src/hybrid_scorer.py), step by step    *)
(*   - ConfigConverter             (src/config_converter.py)               *)
(* Python strings are sequences of one-character strings, so that          *)
(* indexing, upper(), rstrip(), split() and str() are computed and not     *)
(* assumed.  Python dicts are functions whose domain is the key set.       *)
(* Python floats are held exactly, every operation rounded as a double.    *)
(***************************************************************************)
EXTENDS Integers, Sequences, FiniteSets, TLC

VARIABLES
    \* AnswerKeyBuilder.config (the fields the operations write)
    name, total_questions, passing_score, answers,
    \* the last AnswerKeyBuilder call, its arguments and whether it raised
    last,
    \* history: the call that assigned config["answers"] / a config was loaded /
    \* exam_info has held a valid total_questions and passing_score throughout
    answers_from, loaded, valid_so_far,
    \* SimpleHybridDemo: self.answer_key, the call under way (an image run
    \* through process_single_image, or calculate_score called directly),
    \* the values handed from step to step, and the record returned
    answer_key, demo_input, detected_bubbles, detected_answers, results, stage,
    \* improved_position_to_choice: its arguments and what it returned
    question_num, position, choice,
    \* the two lookups applied to two marks of one row: the marks' x and
    \* their y, the letters improved_position_to_choice returned and the
    \* dicts convert_bubbles_to_answers returned
    lookup_xs, lookup_y, lookup_letters, lookup_answers,
    \* calibrate_positions: the call under way (calibrate_numeric_positions on
    \* a results file, or generate_numeric_mapping on a range), what
    \* analyze_numeric_positions and generate_numeric_mapping returned, what
    \* calibrate_numeric_positions returned, the exception that left the call
    calib_input, analysis_result, mapping, calibration, calib_raised, calib_stage,
    \* process_batch: the call (the scorer, its answer key, the image files
    \* found, in the order they are processed), the results list so far,
    \* whether an exception has left process_batch, and where the call is
    batch_input, batch_results, batch_raised, batch_stage,
    \* what generate_performance_report returned for the results of the batch
    report,
    \* HybridOMRScorer.process_batch step by step: the image files, the json
    \* files in results/c_output, the locals of process_single_image for the
    \* image under way, the results list, the calls made for the image under
    \* way and for each image done, and where the call is
    image_files, output_dir, c_output, hybrid_bubbles, hybrid_method,
    hybrid_results, calls, traces, pc,
    \* ConfigConverter: the round trip under way (where it starts and the
    \* answer key or AnswerList it starts from), the answer_key of the Python
    \* config and the AnswerList of the C config as last converted, and the
    \* number of conversions done
    conv_input, python_config, c_config, conversions

builderVars == <<name, total_questions, passing_score, answers, last,
                 answers_from, loaded, valid_so_far>>

demoVars == <<answer_key, demo_input, detected_bubbles, detected_answers,
              results, stage>>

mapperVars == <<question_num, position, choice>>

lookupVars == <<lookup_xs, lookup_y, lookup_letters, lookup_answers>>

calibVars == <<calib_input, analysis_result, mapping, calibration, calib_raised,
               calib_stage>>

batchVars == <<batch_input, batch_results, batch_raised, batch_stage, report>>

hybridVars == <<image_files, output_dir, c_output, hybrid_bubbles,
                hybrid_method, hybrid_results, calls, traces, pc>>

convVars == <<conv_input, python_config, c_config, conversions>>

vars == <<builderVars, demoVars, mapperVars, lookupVars, calibVars, batchVars,
          hybridVars, convVars>>

\* what each component leaves alone
notBuilder == <<convVars, demoVars, mapperVars, lookupVars, calibVars, batchVars,
    hybridVars>>
notDemo == <<convVars, builderVars, mapperVars, lookupVars, calibVars, batchVars,
    hybridVars>>
notMapper == <<convVars, builderVars, demoVars, lookupVars, calibVars, batchVars,
    hybridVars>>
notLookup == <<convVars, builderVars, demoVars, mapperVars, calibVars, batchVars,
    hybridVars>>
notCalib == <<convVars, builderVars, demoVars, mapperVars, lookupVars, batchVars,
    hybridVars>>
notBatch == <<convVars, builderVars, demoVars, mapperVars, lookupVars, calibVars,
    hybridVars>>
notHybrid == <<builderVars, demoVars, mapperVars, lookupVars, calibVars,
               batchVars, convVars>>
notConv == <<builderVars, demoVars, mapperVars, lookupVars, calibVars,
             batchVars, hybridVars>>

(***************************************************************************)
(* Bounds of the model.                                                    *)
(***************************************************************************)
MaxTotal == 3
MaxPat == 2
MaxList == 3

(***************************************************************************)
(* Strings.                                                                *)
(***************************************************************************)
S1(a) == <<a>>
Digits == <<"0", "1", "2", "3", "4", "5", "6", "7", "8", "9">>
LowerLetters == <<"a", "b", "c", "d", "e">>
UpperLetters == <<"A", "B", "C", "D", "E">>

\* str.upper() of one character
UpperChar(c) ==
    IF \E i \in DOMAIN LowerLetters : LowerLetters[i] = c
    THEN UpperLetters[CHOOSE i \in DOMAIN LowerLetters : LowerLetters[i] = c]
    ELSE c

\* str.upper()
Upper(s) == [i \in 1..Len(s) |-> UpperChar(s[i])]

\* str(n) for n >= 0
RECURSIVE Str(_)
Str(n) == IF n < 10 THEN <<Digits[n + 1]>>
          ELSE Str(n \div 10) \o <<Digits[(n % 10) + 1]>>

\* dict assignment d[k] = v
Put(d, k, v) == [x \in (DOMAIN d) \cup {k} |-> IF x = k THEN v ELSE d[x]]

EmptyDict == [x \in {} |-> <<>>]

\* the dict keys "1" .. str(n)
KeysUpTo(n) == {Str(i) : i \in 1..n}

\* all sequences over S of length lo..hi
SeqsOf(S, lo, hi) == UNION {[1..n -> S] : n \in lo..hi}

(***************************************************************************)
(* AnswerKeyBuilder                                                        *)
(***************************************************************************)
DefaultTotalQuestions == 100
DefaultPassingScore == 60

\* A loop of dict assignments answers[k] = v is the sequence of its writes
\* <<k, v>>; the dict it leaves holds, for every key written, the last value.
DictOf(writes) ==
    [k \in {writes[i][1] : i \in DOMAIN writes} |->
        writes[CHOOSE i \in DOMAIN writes :
                  /\ writes[i][1] = k
                  /\ \A j \in DOMAIN writes : j > i => writes[j][1] # k][2]]

\* PatternWrites with the pattern index taken from i instead of i - 1
PatternWritesShifted(total_q, pattern) ==
    [i \in 1..total_q |->
        LET pattern_index == i % Len(pattern)
        IN <<Str(i), S1(UpperChar(pattern[pattern_index + 1]))>>]

\* for i in range(1, total_q + 1):
\*     answers[str(i)] = pattern[(i - 1) % len(pattern)].upper()
PatternWrites(total_q, pattern) ==
    [i \in 1..total_q |->
        LET pattern_index == (i - 1) % Len(pattern)
        IN <<Str(i), S1(UpperChar(pattern[pattern_index + 1]))>>]

\* set_answers_from_pattern raises ZeroDivisionError on an empty pattern
\* as soon as the loop runs once
PatternRaises(total_q, pattern) == Len(pattern) = 0 /\ total_q >= 1

PatternAnswers(total_q, pattern) == DictOf(PatternWrites(total_q, pattern))

Min(a, b) == IF a < b THEN a ELSE b

\* for i in range(1, min(len(answers_list) + 1, total_q + 1)):
\*     answers[str(i)] = answers_list[i-1].upper() if i <= len(answers_list) else "A"
ListWrites(total_q, answers_list) ==
    LET stop == Min(Len(answers_list) + 1, total_q + 1)
    IN [i \in 1..(stop - 1) |->
           <<Str(i), IF i <= Len(answers_list) THEN Upper(answers_list[i])
                     ELSE S1("A")>>]

ListAnswers(total_q, answers_list) == DictOf(ListWrites(total_q, answers_list))

(***************************************************************************)
(* Section names: "Math (1-25)" is parsed for its question range.          *)
(***************************************************************************)
Contains(s, c) == \E i \in 1..Len(s) : s[i] = c

FirstIndex(s, c) == CHOOSE i \in 1..Len(s) : s[i] = c /\ \A j \in 1..(i - 1) : s[j] # c

\* str.split(sep) for a one-character separator
RECURSIVE Split(_, _)
Split(s, c) ==
    IF ~Contains(s, c) THEN <<s>>
    ELSE LET i == FirstIndex(s, c)
         IN <<SubSeq(s, 1, i - 1)>> \o Split(SubSeq(s, i + 1, Len(s)), c)

\* str.replace(c, "")
Remove(s, c) == SelectSeq(s, LAMBDA ch : ch # c)

\* str.strip() of blanks
RECURSIVE Strip(_)
Strip(s) ==
    IF s = <<>> THEN s
    ELSE IF Head(s) = " " THEN Strip(Tail(s))
    ELSE IF s[Len(s)] = " " THEN Strip(SubSeq(s, 1, Len(s) - 1))
    ELSE s

IsDigit(c) == \E i \in DOMAIN Digits : Digits[i] = c
DigitValue(c) == (CHOOSE i \in DOMAIN Digits : Digits[i] = c) - 1

Unsigned(s) == LET t == Strip(s)
               IN IF t # <<>> /\ Head(t) = "+" THEN Tail(t) ELSE t

\* int(s) returns (does not raise ValueError); the separator of the range
\* is "-", so no part carries a minus sign
IsIntLit(s) == LET u == Unsigned(s)
               IN u # <<>> /\ \A i \in 1..Len(u) : IsDigit(u[i])

RECURSIVE DigitsValue(_)
DigitsValue(u) ==
    IF u = <<>> THEN 0
    ELSE 10 * DigitsValue(SubSeq(u, 1, Len(u) - 1)) + DigitValue(u[Len(u)])

\* int(s)
IntOf(s) == DigitsValue(Unsigned(s))

\* range_part = section_name.split("(")[-1].replace(")", "")
RangePart(section_name) ==
    LET parts == Split(section_name, "(")
    IN Remove(parts[Len(parts)], ")")

\* for i in range(start, end + 1):
\*     answers[str(i)] = pattern[(i - start) % len(pattern)].upper()
SectionPatternWrites(start, end, pattern) ==
    [j \in 1..(end - start + 1) |->
        LET i == start + j - 1
            pattern_index == (i - start) % Len(pattern)
        IN <<Str(i), S1(UpperChar(pattern[pattern_index + 1]))>>]

\* for i, answer in enumerate(section_answers):
\*     if start + i <= end: answers[str(start + i)] = answer.upper()
SectionAnswersWrites(start, end, section_answers) ==
    LET all == [j \in 1..Len(section_answers) |->
                   [q |-> start + (j - 1), v |-> Upper(section_answers[j])]]
        kept == SelectSeq(all, LAMBDA w : w.q <= end)
    IN [j \in 1..Len(kept) |-> <<Str(kept[j].q), kept[j].v>>]

\* the loop of set_answers_from_sections over sections k, k+1, ...;
\* raised: an exception left the method before config["answers"] was assigned
RECURSIVE SectionsLoop(_, _, _)
SectionsLoop(writes, k, sections) ==
    IF k > Len(sections) THEN [raised |-> FALSE, answers |-> DictOf(writes)]
    ELSE
      LET sec == sections[k]
          range_part == RangePart(sec.name)
          parts == Split(range_part, "-")
      IN IF ~Contains(range_part, "-") THEN SectionsLoop(writes, k + 1, sections)
         ELSE IF Len(parts) # 2 \/ ~IsIntLit(parts[1]) \/ ~IsIntLit(parts[2])
         THEN [raised |-> TRUE, answers |-> EmptyDict]
         ELSE
           LET start == IntOf(parts[1])
               end == IntOf(parts[2])
           IN IF sec.has_pattern
              THEN IF start <= end /\ Len(sec.pattern) = 0
                   THEN [raised |-> TRUE, answers |-> EmptyDict]
                   ELSE SectionsLoop(
                            writes \o SectionPatternWrites(start, end, sec.pattern),
                            k + 1, sections)
              ELSE IF sec.has_answers
              THEN SectionsLoop(
                       writes \o SectionAnswersWrites(start, end, sec.answers),
                       k + 1, sections)
              ELSE SectionsLoop(writes, k + 1, sections)

SectionsResult(sections) == SectionsLoop(<<>>, 1, sections)

(***************************************************************************)
(* Inputs of the AnswerKeyBuilder operations.                              *)
(***************************************************************************)
Names == {"Quiz"}
TotalInputs == 0..MaxTotal
PassInputs == {-1, 60, 101}
Patterns == SeqsOf({"a", "B"}, 0, MaxPat)
AnswerLists == SeqsOf({<<"a">>, <<"B">>}, 0, MaxList)

NoSectionConfig ==
    [has_pattern |-> FALSE, pattern |-> <<>>, has_answers |-> FALSE, answers |-> <<>>]

WithPattern(p) == [NoSectionConfig EXCEPT !.has_pattern = TRUE, !.pattern = p]
WithAnswers(a) == [NoSectionConfig EXCEPT !.has_answers = TRUE, !.answers = a]

Section(n, c) ==
    [name |-> n, has_pattern |-> c.has_pattern, pattern |-> c.pattern,
     has_answers |-> c.has_answers, answers |-> c.answers]

NameM12 == <<"M", " ", "(", "1", "-", "2", ")">>      \* "M (1-2)"
NameS24 == <<"S", "(", "2", "-", "4", ")">>           \* "S(2-4)"
NameE == <<"E">>                                      \* "E": no range
NamePA == <<"P", "-", "A">>                           \* "P-A": int("P") raises

\* dicts of sections, in insertion order
SectionInputs ==
    { <<>>,
      <<Section(NameM12, WithPattern(<<"a", "B">>))>>,
      <<Section(NameM12, WithPattern(<<"a", "B">>)),
        Section(NameS24, WithAnswers(<<(<<"b">>)>>))>>,
      <<Section(NameS24, WithPattern(<<"a", "B">>))>>,
      <<Section(NameE, WithPattern(<<"a", "B">>))>>,
      <<Section(NamePA, WithPattern(<<"a", "B">>))>>,
      <<Section(NameS24, WithPattern(<<>>))>>,
      <<Section(NameS24, NoSectionConfig)>> }

NoCall == [op |-> "init", raised |-> FALSE, pattern |-> <<>>,
           answers_list |-> <<>>, sections |-> <<>>]

NoFile == [exists |-> FALSE, name |-> "", total_questions |-> 0,
           passing_score |-> 0, answers |-> EmptyDict]

\* what the TOML file at the given path may hold: nothing, or any configuration
FileInputs ==
    {NoFile} \cup
    [exists : {TRUE}, name : Names, total_questions : TotalInputs,
     passing_score : PassInputs,
     answers : {Put(EmptyDict, Str(1), S1("A"))}]

\* a valid exam_info: total_questions >= 1 and passing_score in [0, 100]
ValidExamInfo(tq, ps) == tq >= 1 /\ ps >= 0 /\ ps <= 100

BuilderInit ==
    /\ name = ""
    /\ total_questions = DefaultTotalQuestions
    /\ passing_score = DefaultPassingScore
    /\ answers = EmptyDict
    /\ last = NoCall
    /\ answers_from = "init"
    /\ loaded = FALSE
    /\ valid_so_far = TRUE

set_exam_info(n, tq, ps) ==
    /\ name' = n
    /\ total_questions' = tq
    /\ passing_score' = ps
    /\ last' = [NoCall EXCEPT !.op = "set_exam_info"]
    /\ valid_so_far' = (valid_so_far /\ ValidExamInfo(tq, ps))
    /\ UNCHANGED <<answers, answers_from, loaded, notBuilder>>

set_answers_from_pattern(pattern) ==
    /\ IF PatternRaises(total_questions, pattern)
       THEN /\ last' = [NoCall EXCEPT !.op = "pattern", !.raised = TRUE,
                                      !.pattern = pattern]
            /\ UNCHANGED <<answers, answers_from>>
       ELSE /\ answers' = PatternAnswers(total_questions, pattern)
            /\ answers_from' = "pattern"
            /\ last' = [NoCall EXCEPT !.op = "pattern", !.pattern = pattern]
    /\ UNCHANGED <<name, total_questions, passing_score, loaded, valid_so_far,
                   notBuilder>>

set_answers_from_list(answers_list) ==
    /\ answers' = ListAnswers(total_questions, answers_list)
    /\ answers_from' = "list"
    /\ last' = [NoCall EXCEPT !.op = "list", !.answers_list = answers_list]
    /\ UNCHANGED <<name, total_questions, passing_score, loaded, valid_so_far,
                   notBuilder>>

set_answers_from_sections(sections) ==
    /\ LET r == SectionsResult(sections)
       IN IF r.raised
          THEN /\ last' = [NoCall EXCEPT !.op = "sections", !.raised = TRUE,
                                         !.sections = sections]
               /\ UNCHANGED <<answers, answers_from>>
          ELSE /\ answers' = r.answers
               /\ answers_from' = "sections"
               /\ last' = [NoCall EXCEPT !.op = "sections", !.sections = sections]
    /\ UNCHANGED <<name, total_questions, passing_score, loaded, valid_so_far,
                   notBuilder>>

\* self.config = toml.load(f) when the file exists; otherwise returns False
load_existing_config(file) ==
    /\ IF file.exists
       THEN /\ name' = file.name
            /\ total_questions' = file.total_questions
            /\ passing_score' = file.passing_score
            /\ answers' = file.answers
            /\ answers_from' = "file"
            /\ loaded' = TRUE
            /\ valid_so_far' = (valid_so_far /\
                    ValidExamInfo(file.total_questions, file.passing_score))
       ELSE UNCHANGED <<name, total_questions, passing_score, answers,
                        answers_from, loaded, valid_so_far>>
    /\ last' = [NoCall EXCEPT !.op = "load_existing_config"]
    /\ UNCHANGED notBuilder

BuilderNext ==
    \/ \E n \in Names, tq \in TotalInputs, ps \in PassInputs : set_exam_info(n, tq, ps)
    \/ \E pattern \in Patterns : set_answers_from_pattern(pattern)
    \/ \E answers_list \in AnswerLists : set_answers_from_list(answers_list)
    \/ \E sections \in SectionInputs : set_answers_from_sections(sections)
    \/ \E file \in FileInputs : load_existing_config(file)

(***************************************************************************)
(* SimpleHybridDemo                                                        *)
(***************************************************************************)
Max(a, b) == IF a > b THEN a ELSE b

\* int(a / b) for b > 0: the quotient truncated toward zero
TruncDiv(a, b) == IF a >= 0 THEN a \div b ELSE -((-a) \div b)

\* dict.get(k, default)
Get(d, k, default) == IF k \in DOMAIN d THEN d[k] ELSE default

\* str.rstrip() of blanks
RECURSIVE RStrip(_)
RStrip(s) ==
    IF s # <<>> /\ s[Len(s)] = " " THEN RStrip(SubSeq(s, 1, Len(s) - 1)) ELSE s

\* self.answer_key of SimpleHybridDemo.__init__
DemoKeyTokens ==
    << <<"4">>, <<"8">>, <<"1", "2">>, <<"7">>, <<"1">>,
       <<"2", "3">>, <<"3", "4">>, <<"5", "6">>, <<"7", "8">>, <<"9", "0">>,
       <<"-", "5">>, <<"-", "1", "2">>, <<"+", "8">>, <<"±", "3">>,
       <<"1", "0", "0">> >>

DemoKey == DictOf([i \in 1..Len(DemoKeyTokens) |-> <<Str(i), DemoKeyTokens[i]>>])

RowHeight == 100
LastRow == 15
ColumnWidth == 200
LastColumn == 12
MaxCharacters == 3

column_chars == <<"±", "-", "+", "0", "1", "2", "3", "4", "5", "6", "7", "8", "9">>

\* QuestionOf without the + 1: the row index itself, clamped
QuestionOfRowIndex(y) == Max(1, Min(LastRow, TruncDiv(y, RowHeight)))

\* question_num = max(1, min(15, int(y / 100) + 1))
QuestionOf(y) == Max(1, Min(LastRow, TruncDiv(y, RowHeight) + 1))

\* questions[question_num]: the marks of one row, in detection order
RowMarks(bubbles, q_num) == SelectSeq(bubbles, LAMBDA b : QuestionOf(b[2]) = q_num)

\* list.sort(key=lambda b: b[0]) is stable: a mark goes after the marks whose
\* x is not greater
RECURSIVE InsertByX(_, _)
InsertByX(sorted, b) ==
    IF sorted = <<>> THEN <<b>>
    ELSE IF b[1] < Head(sorted)[1] THEN <<b>> \o sorted
    ELSE <<Head(sorted)>> \o InsertByX(Tail(sorted), b)

RECURSIVE SortByX(_)
SortByX(bubble_positions) ==
    IF bubble_positions = <<>> THEN <<>>
    ELSE InsertByX(SortByX(SubSeq(bubble_positions, 1, Len(bubble_positions) - 1)),
                   bubble_positions[Len(bubble_positions)])

\* CharIdx with the column taken modulo the number of columns instead of
\* clamped to the first and last column
CharIdxWrapped(x) == TruncDiv(x, ColumnWidth) % (LastColumn + 1)

\* char_idx = min(12, max(0, int(x / 200)))
CharIdx(x) == Min(LastColumn, Max(0, TruncDiv(x, ColumnWidth)))

\* answer += column_chars[char_idx] over bubble_positions[:3]
RECURSIVE AnswerOf(_)
AnswerOf(marks) ==
    IF marks = <<>> THEN <<>>
    ELSE AnswerOf(SubSeq(marks, 1, Len(marks) - 1))
         \o <<column_chars[CharIdx(marks[Len(marks)][1]) + 1]>>

\* FirstMarks taking the last three marks, bubble_positions[-3:]
LastMarks(sorted) ==
    SubSeq(sorted, Len(sorted) - Min(MaxCharacters, Len(sorted)) + 1, Len(sorted))

\* bubble_positions[:3]
FirstMarks(sorted) == SubSeq(sorted, 1, Min(MaxCharacters, Len(sorted)))

\* answers[str(q_num)] = answer.rstrip() if answer.rstrip() else "0"
RowAnswer(bubble_positions) ==
    LET answer == AnswerOf(FirstMarks(SortByX(bubble_positions)))
    IN IF RStrip(answer) # <<>> THEN RStrip(answer) ELSE <<"0">>

\* ConvertBubblesToAnswers giving every question an entry, "0" where the row
\* has no mark
ConvertBubblesFillingZero(bubbles) ==
    DictOf([q_num \in 1..LastRow |->
               <<Str(q_num), RowAnswer(RowMarks(bubbles, q_num))>>])

\* convert_bubbles_to_answers: one entry per question that has a mark (the
\* entry of a row is written once per mark of the row, each time the same)
ConvertBubblesToAnswers(bubbles) ==
    DictOf([i \in 1..Len(bubbles) |->
               LET q_num == QuestionOf(bubbles[i][2])
               IN <<Str(q_num), RowAnswer(RowMarks(bubbles, q_num))>>])

\* the status calculate_score gives one question
StatusSwapped(detected_answer, correct_answer) ==
    IF detected_answer = <<>> THEN "blank"
    ELSE IF detected_answer = correct_answer THEN "incorrect"
    ELSE "correct"

Status(detected_answer, correct_answer) ==
    IF detected_answer = <<>> THEN "blank"
    ELSE IF detected_answer = correct_answer THEN "correct"
    ELSE "incorrect"

RECURSIVE Gcd(_, _)
Gcd(a, b) == IF b = 0 THEN a ELSE Gcd(b, a % b)

\* (correct / total_questions) * 100 as a fraction in lowest terms; the
\* float the code computes is exact where the fraction is an integer
Percentage(correct, total) ==
    LET g == Gcd(100 * correct, total)
    IN [num |-> (100 * correct) \div g, den |-> total \div g]

NoSummary == [total_questions |-> 0, correct |-> 0, incorrect |-> 0, blank |-> 0,
              score_percentage |-> [num |-> 0, den |-> 1]]

NoResults == [error |-> FALSE, answers |-> EmptyDict, score_summary |-> NoSummary,
              detailed_comparison |-> <<>>]

\* the record of process_single_image's except branch
ErrorResults == [NoResults EXCEPT !.error = TRUE]

\* the loop of calculate_score from question q_num on; acc holds the counters,
\* results["answers"] and results["detailed_comparison"] so far
RECURSIVE ScoreLoop(_, _, _, _, _)
ScoreLoop(acc, q_num, total, key, detected) ==
    IF q_num > total THEN acc
    ELSE
      LET q_str == Str(q_num)
          correct_answer == Get(key, q_str, <<>>)
          detected_answer == Get(detected, q_str, <<>>)
          status == Status(detected_answer, correct_answer)
      IN ScoreLoop(
           [correct |-> acc.correct + (IF status = "correct" THEN 1 ELSE 0),
            incorrect |-> acc.incorrect + (IF status = "incorrect" THEN 1 ELSE 0),
            blank |-> acc.blank + (IF status = "blank" THEN 1 ELSE 0),
            answers |-> Put(acc.answers, q_str, detected_answer),
            detailed |-> Append(acc.detailed,
                                [question |-> q_num, correct |-> correct_answer,
                                 detected |-> detected_answer, status |-> status])],
           q_num + 1, total, key, detected)

\* CalculateScore with the loop stopping one question early
CalculateScoreSkippingLast(key, detected) ==
    LET total == Cardinality(DOMAIN key)
        r == ScoreLoop([correct |-> 0, incorrect |-> 0, blank |-> 0,
                        answers |-> EmptyDict, detailed |-> <<>>],
                       1, total - 1, key, detected)
    IN [error |-> FALSE,
        answers |-> r.answers,
        score_summary |->
            [total_questions |-> total, correct |-> r.correct,
             incorrect |-> r.incorrect, blank |-> r.blank,
             score_percentage |-> Percentage(r.correct, total)],
        detailed_comparison |-> r.detailed]

\* CalculateScore looping over the detected entries as well as the key
CalculateScoreOverDetected(key, detected) ==
    LET total == Cardinality(DOMAIN key \cup DOMAIN detected)
        r == ScoreLoop([correct |-> 0, incorrect |-> 0, blank |-> 0,
                        answers |-> EmptyDict, detailed |-> <<>>],
                       1, total, key, detected)
    IN IF total = 0 THEN ErrorResults
       ELSE [error |-> FALSE,
             answers |-> r.answers,
             score_summary |->
                 [total_questions |-> total, correct |-> r.correct,
                  incorrect |-> r.incorrect, blank |-> r.blank,
                  score_percentage |-> Percentage(r.correct, total)],
             detailed_comparison |-> r.detailed]

\* calculate_score; total_questions = 0 raises ZeroDivisionError
CalculateScore(key, detected) ==
    LET total == Cardinality(DOMAIN key)
        r == ScoreLoop([correct |-> 0, incorrect |-> 0, blank |-> 0,
                        answers |-> EmptyDict, detailed |-> <<>>],
                       1, total, key, detected)
    IN IF total = 0 THEN ErrorResults
       ELSE [error |-> FALSE,
             answers |-> r.answers,
             score_summary |->
                 [total_questions |-> total, correct |-> r.correct,
                  incorrect |-> r.incorrect, blank |-> r.blank,
                  score_percentage |-> Percentage(r.correct, total)],
             detailed_comparison |-> r.detailed]

(***************************************************************************)
(* Inputs of SimpleHybridDemo.                                             *)
(***************************************************************************)
MaxQuestions == 2
MaxBubbles == 3

KeyTokens == {<<"4">>, <<"A">>}
DetectedTokens == {<<>>, <<"4">>, <<"4", " ">>, <<"a">>, <<"A">>}

\* the key of the demo, and keys over 1..N for small N
AnswerKeys ==
    {DemoKey} \cup UNION {[KeysUpTo(n) -> KeyTokens] : n \in 1..MaxQuestions}

\* every dict over some of the keys K
DictsOver(K, V) == UNION {[D -> V] : D \in SUBSET K}

\* detected_answers handed to calculate_score: for a small key every dict over
\* the questions 1..N+1; for the demo's key the empty sheet, the key itself,
\* and the key with one question changed
DetectedInputs(key) ==
    LET n == Cardinality(DOMAIN key)
    IN IF n <= MaxQuestions + 1
       THEN DictsOver(KeysUpTo(n + 1), DetectedTokens)
       ELSE {EmptyDict, key}
            \cup UNION {{[key EXCEPT ![Str(q)] = v] :
                            v \in DetectedTokens \cup {key[Str(q)] \o <<" ">>}} :
                        q \in 1..n}

MarkXs == {-40, 130, 1450, 2450}
MarkYs == {-10, 150, 9000}

\* a crowded row: MaxRowMarks marks in the row of question 2, in any order of
\* detection
MaxRowMarks == 4
RowY == 150
RowInputs == {[i \in 1..MaxRowMarks |-> <<xs[i], RowY>>] : xs \in [1..MaxRowMarks -> MarkXs]}

\* what detection finds: up to MaxBubbles marks anywhere, or a crowded row
BubbleInputs == SeqsOf(MarkXs \X MarkYs, 0, MaxBubbles) \cup RowInputs

NoInput == [kind |-> "none", readable |-> FALSE, bubbles |-> <<>>]

\* an image: cv2.imread fails, or detection finds some marks
ImageInputs ==
    {[kind |-> "image", readable |-> FALSE, bubbles |-> <<>>]}
    \cup {[kind |-> "image", readable |-> TRUE, bubbles |-> b] : b \in BubbleInputs}

DemoIdle ==
    /\ answer_key = DemoKey
    /\ demo_input = NoInput
    /\ detected_bubbles = <<>>
    /\ detected_answers = EmptyDict
    /\ results = NoResults
    /\ stage = "idle"

\* process_single_image(image) on the demo's key, or calculate_score(d)
DemoInit ==
    /\ detected_bubbles = <<>>
    /\ results = NoResults
    /\ \/ /\ answer_key = DemoKey
          /\ demo_input \in ImageInputs
          /\ detected_answers = EmptyDict
          /\ stage = "start"
       \/ /\ answer_key \in AnswerKeys
          /\ demo_input = [NoInput EXCEPT !.kind = "answers"]
          /\ detected_answers \in DetectedInputs(answer_key)
          /\ stage = "converted"

\* detect_bubbles_simple returns {"bubbles": [...]}
detect_bubbles_simple ==
    /\ stage = "start" /\ demo_input.readable
    /\ detected_bubbles' = demo_input.bubbles
    /\ stage' = "detected"
    /\ UNCHANGED <<answer_key, demo_input, detected_answers, results, notDemo>>

\* detect_bubbles_simple raises ValueError; process_single_image returns the
\* error record
detect_bubbles_fails ==
    /\ stage = "start" /\ ~demo_input.readable
    /\ results' = ErrorResults
    /\ stage' = "done"
    /\ UNCHANGED <<answer_key, demo_input, detected_bubbles, detected_answers,
                   notDemo>>

convert_bubbles_to_answers ==
    /\ stage = "detected"
    /\ detected_answers' = ConvertBubblesToAnswers(detected_bubbles)
    /\ stage' = "converted"
    /\ UNCHANGED <<answer_key, demo_input, detected_bubbles, results, notDemo>>

calculate_score ==
    /\ stage = "converted"
    /\ results' = CalculateScore(answer_key, detected_answers)
    /\ stage' = "done"
    /\ UNCHANGED <<answer_key, demo_input, detected_bubbles, detected_answers,
                   notDemo>>

DemoNext ==
    \/ detect_bubbles_simple
    \/ detect_bubbles_fails
    \/ convert_bubbles_to_answers
    \/ calculate_score

(***************************************************************************)
(* improved_position_to_choice                                             *)
(***************************************************************************)
\* boundaries, in tenths of a pixel: 258.6, 629.8, 1001.0, 1372.2 and
\* 1743.3999999999999 (for a whole x, x < 1743.3999999999999 iff 10x < 17434)
boundaries == <<2586, 6298, 10010, 13722, 17434>>
choices == <<"A", "B", "C", "D", "E">>

\* x < boundary, x in pixels and the boundary in tenths
BelowOrAt(x, boundary) == 10 * x <= boundary

Below(x, boundary) == 10 * x < boundary

\* ScanBoundaries without the closing return "E": the function falls off its
\* end and returns None
RECURSIVE ScanBoundariesNoDefault(_, _)
ScanBoundariesNoDefault(x, i) ==
    IF i > Len(boundaries) THEN "None"
    ELSE IF Below(x, boundaries[i]) THEN choices[i]
    ELSE ScanBoundariesNoDefault(x, i + 1)

\* for i, boundary in enumerate(boundaries): if x < boundary: return choices[i]
\* ... return "E"
RECURSIVE ScanBoundaries(_, _)
ScanBoundaries(x, i) ==
    IF i > Len(boundaries) THEN "E"
    ELSE IF Below(x, boundaries[i]) THEN choices[i]
    ELSE ScanBoundaries(x, i + 1)

ImprovedPositionToChoice(q, pos) == ScanBoundaries(pos[1], 1)

PositionXs == {-500, 0, 100, 258, 259, 629, 630, 1000, 1001, 1002, 1372, 1373,
               1743, 1744, 2000, 100000}
PositionYs == {0, 120, 3000}
QuestionNums == {1, 7, 100}

NoChoice == "none"

MapperIdle ==
    /\ question_num = 0
    /\ position = <<0, 0>>
    /\ choice = NoChoice

MapperInit ==
    /\ question_num \in QuestionNums
    /\ position \in PositionXs \X PositionYs
    /\ choice = NoChoice

improved_position_to_choice ==
    /\ choice = NoChoice
    /\ choice' = ImprovedPositionToChoice(question_num, position)
    /\ UNCHANGED <<question_num, position, notMapper>>

MapperNext == improved_position_to_choice

(***************************************************************************)
(* The two position lookups, each applied to two marks of one row.         *)
(***************************************************************************)
LookupXs == {-500, -1, 0, 199, 200, 258, 259, 629, 630, 1000, 1001, 1372, 1373,
             1743, 1744, 2399, 2400, 2599, 2600, 100000}
LookupYs == {50, 1450}

NoLetters == <<>>
NoAnswers == <<>>

LookupIdle ==
    /\ lookup_xs = <<0, 0>>
    /\ lookup_y = 0
    /\ lookup_letters = NoLetters
    /\ lookup_answers = NoAnswers

LookupInit ==
    /\ lookup_xs \in LookupXs \X LookupXs
    /\ lookup_y \in LookupYs
    /\ lookup_letters = NoLetters
    /\ lookup_answers = NoAnswers

\* improved_position_to_choice(question_num, (x, y)) for each of the marks
lookup_letter ==
    /\ lookup_letters = NoLetters
    /\ lookup_letters' =
         [i \in 1..2 |->
             ImprovedPositionToChoice(QuestionOf(lookup_y), <<lookup_xs[i], lookup_y>>)]
    /\ UNCHANGED <<lookup_xs, lookup_y, lookup_answers, notLookup>>

\* convert_bubbles_to_answers({"bubbles": [(x, y)]}) for each of the marks
lookup_column ==
    /\ lookup_answers = NoAnswers
    /\ lookup_answers' =
         [i \in 1..2 |-> ConvertBubblesToAnswers(<< <<lookup_xs[i], lookup_y>> >>)]
    /\ UNCHANGED <<lookup_xs, lookup_y, lookup_letters, notLookup>>

LookupNext ==
    \/ lookup_letter
    \/ lookup_column

(***************************************************************************)
(* Python floats.  calibrate_positions divides and multiplies coordinates  *)
(* as IEEE 754 doubles, every operation rounded to 53 significant bits     *)
(* (ties to even).  A double v >= 0 is held exactly as the integer v * 2^64*)
(* in four limbs of 24 bits, least significant first; this holds every     *)
(* double in [2^-11, 2^13), and 0: the coordinates, widths and boundaries  *)
(* of sheets up to 4096 pixels wide.                                       *)
(***************************************************************************)
LimbBits == 24
Limb == 2^LimbBits
FractionBits == 64
MantissaBits == 53

\* float(n) for an int 0 <= n < 2^13: n * 2^64 = (n * 2^16) * Limb^2
FloatOf(n) ==
    LET upper == n * 2^(FractionBits - 2 * LimbBits)
    IN <<0, 0, upper % Limb, upper \div Limb>>

\* a * k, exact, for a small k
FixMul(a, k) ==
    LET t1 == a[1] * k
        t2 == a[2] * k + t1 \div Limb
        t3 == a[3] * k + t2 \div Limb
        t4 == a[4] * k + t3 \div Limb
    IN <<t1 % Limb, t2 % Limb, t3 % Limb, t4>>

\* a / k for a small k: the quotient rounded down, and whether it was rounded
FixDiv(a, k) ==
    LET t4 == a[4]
        t3 == (t4 % k) * Limb + a[3]
        t2 == (t3 % k) * Limb + a[2]
        t1 == (t2 % k) * Limb + a[1]
    IN [q |-> <<t1 \div k, t2 \div k, t3 \div k, t4 \div k>>, inexact |-> t1 % k # 0]

\* a + b, exact
FixAdd(a, b) ==
    LET t1 == a[1] + b[1]
        t2 == a[2] + b[2] + t1 \div Limb
        t3 == a[3] + b[3] + t2 \div Limb
        t4 == a[4] + b[4] + t3 \div Limb
    IN <<t1 % Limb, t2 % Limb, t3 % Limb, t4>>

RECURSIVE Bits(_)
Bits(n) == IF n = 0 THEN 0 ELSE 1 + Bits(n \div 2)

\* the number of significant bits of a
BitLen(a) ==
    IF a[4] > 0 THEN 3 * LimbBits + Bits(a[4])
    ELSE IF a[3] > 0 THEN 2 * LimbBits + Bits(a[3])
    ELSE IF a[2] > 0 THEN LimbBits + Bits(a[2])
    ELSE Bits(a[1])

\* the double nearest to a (to a and a little more when sticky: a is then a
\* quotient rounded down), ties to even; at most 24 bits are dropped
RoundToDouble(a, sticky) ==
    LET drop == BitLen(a) - MantissaBits
        unit == 2^drop
        low == a[1] % unit
        odd == IF drop = LimbBits THEN a[2] % 2 = 1 ELSE (a[1] \div unit) % 2 = 1
        up == low > unit \div 2 \/ (low = unit \div 2 /\ (sticky \/ odd))
        down == <<a[1] - low, a[2], a[3], a[4]>>
    IN IF drop <= 0 THEN a
       ELSE IF up THEN FixAdd(down, <<unit % Limb, unit \div Limb, 0, 0>>)
       ELSE down

\* n / k for an int n and a small int k (true division)
FloatDiv(n, k) ==
    LET d == FixDiv(FloatOf(n), k)
    IN RoundToDouble(d.q, d.inexact)

\* i * a for a small int i and a float a
FloatMul(i, a) == RoundToDouble(FixMul(a, i), FALSE)

\* (i + 0.5) * a: (2i + 1) * a / 2, halving a double is exact
FloatMulHalf(i, a) == RoundToDouble(FixDiv(FixMul(a, 2 * i + 1), 2).q, FALSE)

\* n + a for an int n and a float a
FloatAdd(n, a) == RoundToDouble(FixAdd(FloatOf(n), a), FALSE)

\* a < b
FloatLess(a, b) ==
    \E i \in 1..4 : a[i] < b[i] /\ \A j \in (i + 1)..4 : a[j] = b[j]

(***************************************************************************)
(* calibrate_positions                                                     *)
(***************************************************************************)
NumColumns == 13

\* labels = ["¬±", "-", "+"] + [str(i) for i in range(10)]: in this file the
\* first label is the two-character string "¬±" (U+00AC U+00B1), here and
\* wherever the file names the sign
labels == <<"¬±", "-", "+">> \o [i \in 1..10 |-> Str(i - 1)[1]]

\* column_width = x_range / num_columns
MappingWidth(x_min, x_max) == FloatDiv(x_max - x_min, NumColumns)

\* generate_numeric_mapping: mapping[label] = (start_x, end_x), in the order
\* the labels are inserted
GenerateNumericMapping(x_min, x_max) ==
    LET column_width == MappingWidth(x_min, x_max)
    IN [k \in 1..Len(labels) |->
           LET i == k - 1
           IN [label |-> labels[k],
               start_x |-> FloatAdd(x_min, FloatMul(i, column_width)),
               end_x |-> FloatAdd(x_min, FloatMul(i + 1, column_width))]]

\* all_positions: the "position" of every answer_data that is a dict with a
\* position, over the sheets that have "detected_answers"
RECURSIVE AllPositions(_)
AllPositions(data) ==
    IF data = <<>> THEN <<>>
    ELSE LET sheet == data[Len(data)]
             found == SelectSeq(sheet.detected_answers, LAMBDA a : a.has_position)
         IN AllPositions(SubSeq(data, 1, Len(data) - 1))
            \o (IF sheet.has_detected_answers
                THEN [j \in 1..Len(found) |-> found[j].position]
                ELSE <<>>)

\* sheet_count: the sheets that have "detected_answers"
SheetCount(data) == Len(SelectSeq(data, LAMBDA sheet : sheet.has_detected_answers))

MinOf(S) == CHOOSE m \in S : \A v \in S : m <= v
MaxOf(S) == CHOOSE m \in S : \A v \in S : m >= v

\* return {}
EmptyResult ==
    [empty |-> TRUE, sheet_count |-> 0, total_marks_analyzed |-> 0,
     x_coordinate_range |-> <<0, 0>>, y_coordinate_range |-> <<0, 0>>,
     column_width |-> FloatOf(0), sign_boundaries |-> <<>>,
     digit_boundaries |-> <<>>, recommended_mapping |-> <<>>]

\* column_width = x_range / (num_columns - 1)
ColumnWidthOf(x_min, x_max) == FloatDiv(x_max - x_min, NumColumns - 1)

\* x_min + (i + 0.5) * column_width
BoundaryAt(x_min, column_width, i) == FloatAdd(x_min, FloatMulHalf(i, column_width))

\* analyze_numeric_positions: an unreadable file raises inside the try and
\* returns {}; so does a file without any position
AnalyzeNumericPositions(file) ==
    LET all_positions == AllPositions(file.data)
        x_coords == {all_positions[j][1] : j \in DOMAIN all_positions}
        y_coords == {all_positions[j][2] : j \in DOMAIN all_positions}
        x_min == MinOf(x_coords)
        x_max == MaxOf(x_coords)
        column_width == ColumnWidthOf(x_min, x_max)
    IN IF ~file.readable \/ all_positions = <<>> THEN EmptyResult
       ELSE [empty |-> FALSE,
             sheet_count |-> SheetCount(file.data),
             total_marks_analyzed |-> Len(all_positions),
             x_coordinate_range |-> <<x_min, x_max>>,
             y_coordinate_range |-> <<MinOf(y_coords), MaxOf(y_coords)>>,
             column_width |-> column_width,
             \* for i in range(3): the boundaries of "±", "-", "+"
             sign_boundaries |->
                 [k \in 1..3 |-> BoundaryAt(x_min, column_width, k - 1)],
             \* for i in range(3, 13): the boundaries of "0" .. "9"
             digit_boundaries |->
                 [k \in 1..10 |-> BoundaryAt(x_min, column_width, k + 2)],
             recommended_mapping |-> GenerateNumericMapping(x_min, x_max)]

\* f"{a:.0f}": the integer nearest to the float a, ties to even
FormatF0(a) ==
    LET half == 2^(FractionBits - 2 * LimbBits - 1)
        whole == a[4] * 2^(3 * LimbBits - FractionBits) + a[3] \div (2 * half)
        tie == a[3] % (2 * half) = half /\ a[2] = 0 /\ a[1] = 0
        above == a[3] % (2 * half) >= half /\ ~tie
    IN IF above \/ (tie /\ whole % 2 = 1) THEN whole + 1 ELSE whole

\* the map_x_to_numeric_answer that calibrate_numeric_positions prints, as
\* the index of the symbol it returns: if x_pos < (boundary of ¬±) ... elif
\* x_pos < (boundary of 8) ... else '9', the boundaries printed with :.0f
MapXToNumericAnswer(result, x_pos) ==
    LET bounds == result.sign_boundaries \o result.digit_boundaries
        below == {k \in 1..(NumColumns - 1) : x_pos < FormatF0(bounds[k])}
    IN IF below = {} THEN NumColumns ELSE MinOf(below)

(***************************************************************************)
(* Inputs of calibrate_positions.                                          *)
(***************************************************************************)
MaxMarks == 2

CalibXs == {0, 15, 100, 1300}
CalibYs == {50, 700}

\* the values of a sheet's "detected_answers": a dict with a "position", or
\* anything else (a plain token)
NoPosition == [has_position |-> FALSE, position |-> <<0, 0>>]
AnswerData ==
    {NoPosition} \cup [has_position : {TRUE}, position : CalibXs \X CalibYs]

\* a sheet record without "detected_answers"
NoDetectedAnswers == [has_detected_answers |-> FALSE, detected_answers |-> <<>>]

Sheets ==
    {NoDetectedAnswers}
    \cup [has_detected_answers : {TRUE},
          detected_answers : SeqsOf(AnswerData, 0, MaxMarks)]

\* a sheet with one mark
OneMark(x) ==
    [has_detected_answers |-> TRUE,
     detected_answers |-> <<[has_position |-> TRUE, position |-> <<x, 50>>]>>]

\* the results file: unreadable, or a list of sheet records
ResultsFiles ==
    {[kind |-> "file", readable |-> FALSE, data |-> <<>>]}
    \cup {[kind |-> "file", readable |-> TRUE, data |-> d] :
            d \in {<<>>} \cup {<<sheet>> : sheet \in Sheets}
                  \cup {<<NoDetectedAnswers, sheet>> : sheet \in Sheets}
                  \cup {<<sheet, OneMark(100)>> : sheet \in Sheets}}

\* generate_numeric_mapping(x_min, x_max) called on a range
RangeXs == {0, 15, 27, 100, 1300, 1301}
Ranges == {r \in [kind : {"range"}, x_min : RangeXs, x_max : RangeXs] :
              r.x_min <= r.x_max}

NoCalibInput == [kind |-> "none"]
NoMapping == <<>>

CalibIdle ==
    /\ calib_input = NoCalibInput
    /\ analysis_result = EmptyResult
    /\ mapping = NoMapping
    /\ calibration = "pending"
    /\ calib_raised = "none"
    /\ calib_stage = "idle"

CalibInit ==
    /\ calib_input \in ResultsFiles \cup Ranges
    /\ analysis_result = EmptyResult
    /\ mapping = NoMapping
    /\ calibration = "pending"
    /\ calib_raised = "none"
    /\ calib_stage = "start"

\* analysis_result = analyze_numeric_positions(results_file)
analyze_numeric_positions ==
    /\ calib_stage = "start" /\ calib_input.kind = "file"
    /\ analysis_result' = AnalyzeNumericPositions(calib_input)
    /\ calib_stage' = "analyzed"
    /\ UNCHANGED <<calib_input, mapping, calibration, calib_raised, notCalib>>

\* the rest of calibrate_numeric_positions: if not analysis_result: return;
\* ... return analysis_result
calibrate_numeric_positions ==
    /\ calib_stage = "analyzed"
    /\ calibration' = IF analysis_result.empty THEN "None" ELSE "analysis_result"
    /\ calib_stage' = "done"
    /\ UNCHANGED <<calib_input, analysis_result, mapping, calib_raised, notCalib>>

generate_numeric_mapping ==
    /\ calib_stage = "start" /\ calib_input.kind = "range"
    /\ mapping' = GenerateNumericMapping(calib_input.x_min, calib_input.x_max)
    /\ calib_stage' = "done"
    /\ UNCHANGED <<calib_input, analysis_result, calibration, calib_raised, notCalib>>

CalibNext ==
    \/ analyze_numeric_positions
    \/ calibrate_numeric_positions
    \/ generate_numeric_mapping

(***************************************************************************)
(* process_batch of SimpleHybridDemo and of HybridOMRScorer                *)
(***************************************************************************)
\* the try block of SimpleHybridDemo.process_single_image: detection raises
\* on an unreadable image, scoring on an empty answer key
SimpleTry(key, image) ==
    LET scored == CalculateScore(key, ConvertBubblesToAnswers(image.bubbles))
    IN IF ~image.readable
       THEN [raised |-> TRUE, message |-> "Could not load image",
             results |-> NoResults]
       ELSE [raised |-> scored.error,
             message |-> IF scored.error THEN "division by zero" ELSE "",
             results |-> scored]

\* SimpleHybridDemo.process_single_image: the results with their metadata, or
\* the error record of the except branch
SimpleProcessSingleImage(key, image, path) ==
    LET try == SimpleTry(key, image)
    IN [raised |-> FALSE,
        message |-> "",
        record |-> IF try.raised
                   THEN [image_path |-> path, error |-> TRUE,
                         message |-> try.message,
                         method_key |-> "processing_method", method |-> "failed",
                         results |-> NoResults]
                   ELSE [image_path |-> path, error |-> FALSE, message |-> "",
                         method_key |-> "processing_method",
                         method |-> "Python OpenCV", results |-> try.results]]

\* HybridOMRScorer.process_single_image: C detection, the Python fallback
\* when it raises (which raises on an unreadable image), then scoring; the
\* method has no except for the fallback or the scoring
HybridProcessSingleImage(image, path) ==
    LET detection_method == IF image.c_detection THEN "C-based" ELSE "Python fallback"
        detected == image.c_detection \/ image.readable
    IN [raised |-> ~detected \/ ~image.scoring,
        message |-> IF ~detected THEN "Could not load image"
                    ELSE IF ~image.scoring THEN "score_with_answers raised"
                    ELSE "",
        record |-> [image_path |-> path, error |-> FALSE, message |-> "",
                    method_key |-> "detection_method",
                    method |-> detection_method, results |-> NoResults]]

\* HybridTry without the except branch: the exception leaves process_batch
HybridNoExcept(image, path) == HybridProcessSingleImage(image, path)

\* the loop body of HybridOMRScorer.process_batch: try process_single_image,
\* except: the error record
HybridTry(image, path) ==
    LET r == HybridProcessSingleImage(image, path)
    IN IF r.raised
       THEN [raised |-> FALSE,
             message |-> "",
             record |-> [image_path |-> path, error |-> TRUE,
                         message |-> r.message,
                         method_key |-> "detection_method", method |-> "failed",
                         results |-> NoResults]]
       ELSE r

(***************************************************************************)
(* generate_performance_report of main_hybrid.py.  A record carries        *)
(* "error" where its error field is TRUE, and its method under the key     *)
(* method_key.  No record carries "score": calculate_score sets none, and  *)
(* the results of python_backend's calculate_sheet_score are not held, so  *)
(* total_scores stays empty and average_score stays 0.0.  The timestamp    *)
(* is left out.                                                            *)
(***************************************************************************)
\* result.get("detection_method", default)
DetectionMethod(result, default) ==
    IF result.method_key = "detection_method" THEN result.method ELSE default

\* the counters of report["summary"] after the if/else on one result
TallyCountingAllSuccessful(summary, result) ==
    [summary EXCEPT !.successful_detections = @ + 1]

Tally(summary, result) ==
    IF result.error
    THEN [summary EXCEPT !.failed_detections = @ + 1]
    ELSE [summary EXCEPT
            !.successful_detections = @ + 1,
            !.c_detections =
                @ + (IF DetectionMethod(result, "None") = "C-based" THEN 1 ELSE 0),
            !.python_fallback_detections =
                @ + (IF DetectionMethod(result, "None") = "Python fallback"
                     THEN 1 ELSE 0)]

\* the entry of report["detailed_results"] for one result
DetailOf(result) ==
    [image |-> result.image_path,
     detection_method |-> DetectionMethod(result, "unknown"),
     score |-> "N/A",
     status |-> IF ~result.error THEN "success" ELSE "failed",
     error |-> IF result.error THEN result.message ELSE "None"]

\* AddDetail putting the entry in front
AddDetailInFront(detailed_results, result) ==
    <<DetailOf(result)>> \o detailed_results

\* report["detailed_results"].append({...})
AddDetail(detailed_results, result) ==
    Append(detailed_results, DetailOf(result))

\* for result in results, from the i-th result on
RECURSIVE ReportLoop(_, _, _)
ReportLoop(acc, rs, i) ==
    IF i > Len(rs) THEN acc
    ELSE ReportLoop([acc EXCEPT
                       !.summary = Tally(@, rs[i]),
                       !.detailed_results = AddDetail(@, rs[i])],
                    rs, i + 1)

ZeroRate == [num |-> 0, den |-> 1]

EmptyReport(total) ==
    [summary |-> [total_images |-> total, successful_detections |-> 0,
                  failed_detections |-> 0, c_detections |-> 0,
                  python_fallback_detections |-> 0],
     detailed_results |-> <<>>,
     performance_metrics |-> [detection_success_rate |-> ZeroRate,
                              c_detection_rate |-> ZeroRate,
                              average_score |-> ZeroRate]]

GeneratePerformanceReport(rs) ==
    LET looped == ReportLoop(EmptyReport(Len(rs)), rs, 1)
        total == looped.summary.total_images
    IN IF total > 0
       THEN [looped EXCEPT
               !.performance_metrics.detection_success_rate =
                   Percentage(looped.summary.successful_detections, total),
               !.performance_metrics.c_detection_rate =
                   Percentage(looped.summary.c_detections, total)]
       ELSE looped

(***************************************************************************)
(* Inputs of process_batch.                                                *)
(***************************************************************************)
MaxBatch == 3

\* images for SimpleHybridDemo: unreadable, without a mark, with a mark "4"
\* in the first row
SimpleImages ==
    {[readable |-> FALSE, bubbles |-> <<>>],
     [readable |-> TRUE, bubbles |-> <<>>],
     [readable |-> TRUE, bubbles |-> << <<1450, 50>> >>]}

\* images for HybridOMRScorer: whether C detection succeeds, whether
\* cv2.imread reads the image, whether score_with_answers returns
HybridImages == [c_detection : BOOLEAN, readable : BOOLEAN, scoring : BOOLEAN]

BatchInputs ==
    [scorer : {"simple"}, answer_key : {DemoKey, EmptyDict},
     image_files : SeqsOf(SimpleImages, 0, MaxBatch)]
    \cup [scorer : {"hybrid"}, answer_key : {DemoKey},
          image_files : SeqsOf(HybridImages, 0, MaxBatch)]

NoBatch == [scorer |-> "none", answer_key |-> EmptyDict, image_files |-> <<>>]

NoReport == EmptyReport(0)

BatchIdle ==
    /\ batch_input = NoBatch
    /\ batch_results = <<>>
    /\ batch_raised = FALSE
    /\ batch_stage = "idle"
    /\ report = NoReport

\* process_batch(image_dir) called: results = []
BatchInit ==
    /\ batch_input \in BatchInputs
    /\ batch_results = <<>>
    /\ batch_raised = FALSE
    /\ batch_stage = "loop"
    /\ report = NoReport

\* the image the loop is at
NextPath == Len(batch_results) + 1

\* one turn of the loop with the outcome r of its body
LoopTurn(r) ==
    /\ batch_stage = "loop" /\ NextPath <= Len(batch_input.image_files)
    /\ IF r.raised
       THEN /\ batch_raised' = TRUE
            /\ batch_stage' = "raised"
            /\ UNCHANGED batch_results
       ELSE /\ batch_results' = Append(batch_results, r.record)
            /\ UNCHANGED <<batch_raised, batch_stage>>
    /\ UNCHANGED <<batch_input, report, notBatch>>

\* SimpleHybridDemo.process_batch: result = self.process_single_image(...);
\* results.append(result)
simple_process_single_image ==
    /\ batch_input.scorer = "simple"
    /\ NextPath <= Len(batch_input.image_files)
    /\ LoopTurn(SimpleProcessSingleImage(batch_input.answer_key,
                                         batch_input.image_files[NextPath], NextPath))

\* HybridOMRScorer.process_batch: try: result = self.process_single_image(...)
hybrid_process_single_image ==
    /\ batch_input.scorer = "hybrid"
    /\ NextPath <= Len(batch_input.image_files)
    /\ LoopTurn(HybridTry(batch_input.image_files[NextPath], NextPath))

\* return results
process_batch_returns ==
    /\ batch_stage = "loop" /\ NextPath > Len(batch_input.image_files)
    /\ batch_stage' = "returned"
    /\ UNCHANGED <<batch_input, batch_results, batch_raised, report, notBatch>>

\* report = generate_performance_report(results)
generate_performance_report ==
    /\ batch_stage = "returned"
    /\ report' = GeneratePerformanceReport(batch_results)
    /\ batch_stage' = "reported"
    /\ UNCHANGED <<batch_input, batch_results, batch_raised, notBatch>>

BatchNext ==
    \/ simple_process_single_image
    \/ hybrid_process_single_image
    \/ process_batch_returns
    \/ generate_performance_report

(***************************************************************************)
(* HybridOMRScorer.process_batch step by step.  An image file says what    *)
(* its C run does (c_run), whether cv2.imread reads it, and whether        *)
(* score_with_answers returns for it.  The C program is not part of the    *)
(* sources: a run that exits with 0 writes no file ("silent"), a file of   *)
(* a fixed name ("fixed"), a file named after the image ("named") or a     *)
(* file that is not JSON ("corrupt").  A json file of the output           *)
(* directory is held as the image whose run wrote it and the marks in it.  *)
(***************************************************************************)
MaxSheets == 2

CRuns == {"no_binary", "nonzero", "silent", "fixed", "named", "corrupt"}

\* the marks on every sheet
SheetMarks == << <<130, 150>> >>

HybridSheets == [c_run : CRuns, readable : BOOLEAN, scoring : BOOLEAN]

\* the name of the file the C run of the i-th image writes (0: the fixed
\* name)
FileOf(image, i) == IF image.c_run = "named" THEN i ELSE 0

\* the output directory after subprocess.run(cmd) for the i-th image
RunC(dir, image, i) ==
    IF image.c_run \in {"fixed", "named", "corrupt"}
    THEN Put(dir, FileOf(image, i),
             [image |-> i, marks |-> SheetMarks,
              json |-> image.c_run # "corrupt"])
    ELSE dir

NoOutput == [image |-> 0, marks |-> <<>>, json |-> FALSE]

\* detect_bubbles_c: the outcomes of the call for the i-th image, one per
\* file os.listdir may list first; json.load raises on a file that is not
\* JSON
DetectBubblesC(dir, image, i) ==
    LET ran == RunC(dir, image, i)
        output_files == DOMAIN ran
        failed(d) == [raised |-> TRUE, c_output |-> NoOutput, output_dir |-> d]
    IN IF image.c_run = "no_binary" THEN {failed(dir)}
       ELSE IF image.c_run = "nonzero" THEN {failed(dir)}
       ELSE IF output_files = {} THEN {failed(ran)}
       ELSE {IF ran[f].json
             THEN [raised |-> FALSE, c_output |-> ran[f], output_dir |-> ran]
             ELSE failed(ran) : f \in output_files}

\* detect_bubbles_python_fallback: {"bubbles": bubbles}, ValueError when
\* cv2.imread returns None
DetectBubblesPythonFallback(image) ==
    [raised |-> ~image.readable,
     bubbles |-> [k \in {"bubbles"} |-> SheetMarks]]

\* convert_to_python_format: the placeholder structure
ConvertToPythonFormat(output) == [k \in {"detected_bubbles"} |-> <<>>]

\* where process_single_image goes on after the call in the try block: the
\* except clause when it raised, the scoring when it returned
AfterTryAlwaysExcept(raised) == "except"

AfterTry(raised) == IF raised THEN "except" ELSE "score"

NoBubbles == EmptyDict

HybridIdle ==
    /\ image_files = <<>>
    /\ output_dir = EmptyDict
    /\ c_output = NoOutput
    /\ hybrid_bubbles = NoBubbles
    /\ hybrid_method = ""
    /\ hybrid_results = <<>>
    /\ calls = <<>>
    /\ traces = <<>>
    /\ pc = "idle"

\* process_batch(image_dir, answer_key) called: results = [], the image
\* files found; results/c_output holds no json file
HybridInit ==
    /\ image_files \in SeqsOf(HybridSheets, 0, MaxSheets)
    /\ output_dir = EmptyDict
    /\ c_output = NoOutput
    /\ hybrid_bubbles = NoBubbles
    /\ hybrid_method = ""
    /\ hybrid_results = <<>>
    /\ calls = <<>>
    /\ traces = <<>>
    /\ pc = "process_single_image"

\* the image the loop of process_batch is at
Current == Len(hybrid_results) + 1

\* the try block of process_single_image: detect_bubbles_c,
\* convert_to_python_format, detection_method = "C-based"
detect_bubbles_c ==
    /\ pc = "process_single_image" /\ Current <= Len(image_files)
    /\ \E out \in DetectBubblesC(output_dir, image_files[Current], Current) :
         /\ output_dir' = out.output_dir
         /\ c_output' = out.c_output
         /\ calls' = <<[call |-> "detect_bubbles_c", raised |-> out.raised]>>
         /\ pc' = AfterTry(out.raised)
         /\ IF out.raised
            THEN UNCHANGED <<hybrid_bubbles, hybrid_method>>
            ELSE /\ hybrid_bubbles' = ConvertToPythonFormat(out.c_output)
                 /\ hybrid_method' = "C-based"
    /\ UNCHANGED <<image_files, hybrid_results, traces, notHybrid>>

\* the exception leaves process_single_image; the except clause of
\* process_batch appends the error record and the loop goes on
Failed(message, called) ==
    /\ hybrid_results' =
         Append(hybrid_results,
                [image_path |-> Current, error |-> TRUE, message |-> message,
                 method_key |-> "detection_method", method |-> "failed",
                 results |-> NoResults])
    /\ traces' = Append(traces, called)
    /\ calls' = <<>>
    /\ c_output' = NoOutput
    /\ hybrid_bubbles' = NoBubbles
    /\ hybrid_method' = ""
    /\ pc' = "process_single_image"

\* the except clause of process_single_image:
\* detect_bubbles_python_fallback, detection_method = "Python fallback"
detect_bubbles_python_fallback ==
    /\ pc = "except"
    /\ LET out == DetectBubblesPythonFallback(image_files[Current])
           called == Append(calls, [call |-> "detect_bubbles_python_fallback",
                                    raised |-> out.raised])
       IN IF out.raised
          THEN Failed("Could not load image", called)
          ELSE /\ hybrid_bubbles' = out.bubbles
               /\ hybrid_method' = "Python fallback"
               /\ calls' = called
               /\ pc' = "score"
               /\ UNCHANGED <<c_output, hybrid_results, traces>>
    /\ UNCHANGED <<image_files, output_dir, notHybrid>>

\* results = self.score_with_answers(bubbles, answer_key), the two
\* assignments to results, return results; results.append(result)
score_with_answers ==
    /\ pc = "score"
    /\ LET raised == ~image_files[Current].scoring
           called == Append(calls, [call |-> "score_with_answers",
                                    raised |-> raised])
       IN IF raised
          THEN Failed("score_with_answers raised", called)
          ELSE /\ hybrid_results' =
                    Append(hybrid_results,
                           [image_path |-> Current, error |-> FALSE,
                            message |-> "", method_key |-> "detection_method",
                            method |-> hybrid_method, results |-> NoResults])
               /\ traces' = Append(traces, called)
               /\ calls' = <<>>
               /\ c_output' = NoOutput
               /\ hybrid_bubbles' = NoBubbles
               /\ hybrid_method' = ""
               /\ pc' = "process_single_image"
    /\ UNCHANGED <<image_files, output_dir, notHybrid>>

\* return results
hybrid_process_batch_returns ==
    /\ pc = "process_single_image" /\ Current > Len(image_files)
    /\ pc' = "returned"
    /\ UNCHANGED <<image_files, output_dir, c_output, hybrid_bubbles, hybrid_method,
                   hybrid_results, calls, traces, notHybrid>>

HybridNext ==
    \/ detect_bubbles_c
    \/ detect_bubbles_python_fallback
    \/ score_with_answers
    \/ hybrid_process_batch_returns

(***************************************************************************)
(* ConfigConverter: the answer key between the Python config (a dict,      *)
(* "1".."n" -> token) and the C config (AnswerList, a list of entries).    *)
(* python_to_c_json returns the C config and c_json_to_python_config       *)
(* reads it from the JSON file the former wrote; the entries are ASCII     *)
(* strings, which json.dump and json.load hand over unchanged.             *)
(***************************************************************************)
EntryWidth == 5

\* str.replace(old, new) for one-character old and new
Replace(str, old, new) ==
    [i \in 1..Len(str) |-> IF str[i] = old THEN new ELSE str[i]]

\* str.ljust(width)
LJust(str, width) == str \o [i \in 1..(width - Len(str)) |-> " "]

\* the entry python_to_c_json appends for one answer
CEntry(answer) == LJust(Replace(answer, "±", "&"), EntryWidth)

\* the AnswerList of python_to_c_json: for i in range(1, len(answer_key) + 1)
PythonToCJson(key) ==
    [i \in 1..Cardinality(DOMAIN key) |-> CEntry(Get(key, Str(i), <<>>))]

\* CJsonToPythonConfig without the rstrip
CJsonToPythonConfigUnstripped(answer_list) ==
    DictOf([i \in 1..Len(answer_list) |->
               <<Str(i), Replace(answer_list[i], "&", "±")>>])

\* the answer_key of c_json_to_python_config: for i, answer in
\* enumerate(answer_list, 1)
CJsonToPythonConfig(answer_list) ==
    DictOf([i \in 1..Len(answer_list) |->
               <<Str(i), Replace(RStrip(answer_list[i]), "&", "±")>>])

(***************************************************************************)
(* Inputs of ConfigConverter.                                              *)
(***************************************************************************)
MaxEntries == 2

\* tokens of a Python answer key: over ±, +, -, 0..9, without trailing
\* blank; the empty token, shorter and longer than an entry is wide
PythonTokens ==
    {<<>>, <<"4">>, <<"±", "1", "2">>, <<"-", "1", "2", "3", "4", "5">>}

\* Python answer keys: any keys among "1" .. str(MaxEntries + 1), so that
\* "1".."n", keys with a gap and keys not starting at "1" occur
PythonKeys == DictsOver(KeysUpTo(MaxEntries + 1), PythonTokens)

\* entries of an AnswerList: over +, -, &, 0..9 with no, some and more
\* trailing blanks, among them entries exactly EntryWidth wide
CEntries ==
    {<<"4">>, <<"4", " ", " ", " ", " ">>, <<"4", " ", " ", " ", " ", " ">>,
     <<"&", "1", "2", " ", " ">>, <<"&", "1", "2", " ">>,
     <<" ", " ", " ", " ", " ">>, <<"-", "1", "2", "3", "4", "5">>}

CAnswerLists == SeqsOf(CEntries, 0, 2)

ConvInputs ==
    [start : {"python"}, answer_key : PythonKeys, AnswerList : {<<>>}]
    \cup [start : {"c"}, answer_key : {EmptyDict}, AnswerList : CAnswerLists]

NoConv == [start |-> "none", answer_key |-> EmptyDict, AnswerList |-> <<>>]

ConvIdle ==
    /\ conv_input = NoConv
    /\ python_config = EmptyDict
    /\ c_config = <<>>
    /\ conversions = 0

\* a Python config or a C config is at hand
ConvInit ==
    /\ conv_input \in ConvInputs
    /\ python_config = conv_input.answer_key
    /\ c_config = conv_input.AnswerList
    /\ conversions = 0

\* the config the next conversion of the round trip reads
Holds ==
    IF (conv_input.start = "python") <=> (conversions = 0) THEN "python" ELSE "c"

\* c_config = ConfigConverter.python_to_c_json(python_config, path)
python_to_c_json ==
    /\ conversions < 2 /\ Holds = "python"
    /\ c_config' = PythonToCJson(python_config)
    /\ conversions' = conversions + 1
    /\ UNCHANGED <<conv_input, python_config, notConv>>

\* python_config = ConfigConverter.c_json_to_python_config(path)
c_json_to_python_config ==
    /\ conversions < 2 /\ Holds = "c"
    /\ python_config' = CJsonToPythonConfig(c_config)
    /\ conversions' = conversions + 1
    /\ UNCHANGED <<conv_input, c_config, notConv>>

ConvNext ==
    \/ python_to_c_json
    \/ c_json_to_python_config

(***************************************************************************)
(* The specifications: one per component, the others idle.                 *)
(***************************************************************************)
InitBuilder ==
    BuilderInit /\ DemoIdle /\ MapperIdle /\ LookupIdle /\ CalibIdle /\ BatchIdle
    /\ HybridIdle
    /\ ConvIdle
SpecBuilder == InitBuilder /\ [][BuilderNext]_vars

InitDemo ==
    BuilderInit /\ DemoInit /\ MapperIdle /\ LookupIdle /\ CalibIdle /\ BatchIdle
    /\ HybridIdle
    /\ ConvIdle
SpecDemo == InitDemo /\ [][DemoNext]_vars

InitMapper ==
    BuilderInit /\ DemoIdle /\ MapperInit /\ LookupIdle /\ CalibIdle /\ BatchIdle
    /\ HybridIdle
    /\ ConvIdle
SpecMapper == InitMapper /\ [][MapperNext]_vars

InitLookup ==
    BuilderInit /\ DemoIdle /\ MapperIdle /\ LookupInit /\ CalibIdle /\ BatchIdle
    /\ HybridIdle
    /\ ConvIdle
SpecLookup == InitLookup /\ [][LookupNext]_vars

InitCalib ==
    BuilderInit /\ DemoIdle /\ MapperIdle /\ LookupIdle /\ CalibInit /\ BatchIdle
    /\ HybridIdle
    /\ ConvIdle
SpecCalib == InitCalib /\ [][CalibNext]_vars

InitBatch ==
    BuilderInit /\ DemoIdle /\ MapperIdle /\ LookupIdle /\ CalibIdle /\ BatchInit
    /\ HybridIdle
    /\ ConvIdle
SpecBatch == InitBatch /\ [][BatchNext]_vars

InitHybrid ==
    BuilderInit /\ DemoIdle /\ MapperIdle /\ LookupIdle /\ CalibIdle /\ BatchIdle
    /\ HybridInit /\ ConvIdle
SpecHybrid == InitHybrid /\ [][HybridNext]_vars

InitConv ==
    BuilderInit /\ DemoIdle /\ MapperIdle /\ LookupIdle /\ CalibIdle /\ BatchIdle
    /\ HybridIdle /\ ConvInit
SpecConv == InitConv /\ [][ConvNext]_vars

(***************************************************************************)
(* Claims about AnswerKeyBuilder.                                          *)
(***************************************************************************)
\* C1: once a set_answers_* call has assigned the answers, and whatever
\* set_exam_info calls follow, the keys of config["answers"] are exactly
\* "1" .. str(total_questions) of the current exam_info.  Stated here for
\* answers assigned by set_answers_from_pattern, in runs whose exam_info was
\* valid (N >= 1, passing_score in [0, 100]) at every step.
C1_AnswersCoverCurrentTotal ==
    (answers_from = "pattern" /\ ~loaded /\ valid_so_far)
    => DOMAIN answers = KeysUpTo(total_questions)

\* C2: right after set_answers_from_pattern(pattern) with a non-empty pattern
\* and total_questions N >= 1, the answers have exactly the keys "1".."N" and
\* question i holds the upper-cased pattern[(i-1) mod len(pattern)].
C2_PatternRepeats ==
    (last.op = "pattern" /\ Len(last.pattern) > 0 /\ total_questions >= 1)
    => /\ ~last.raised
       /\ DOMAIN answers = KeysUpTo(total_questions)
       /\ \A i \in 1..total_questions :
            answers[Str(i)] =
                <<UpperChar(last.pattern[((i - 1) % Len(last.pattern)) + 1])>>

\* C2's case: a two-character pattern wrapped around over three questions,
\* its lower-case first character upper-cased
C2_Witness ==
    /\ last.op = "pattern" /\ ~last.raised
    /\ last.pattern = <<"a", "B">>
    /\ total_questions = 3
    /\ answers[Str(3)] = <<"A">>

\* C3: right after set_answers_from_list(answers_list) every question 1..N
\* has one token: the upper-cased list entry i for i <= len(answers_list),
\* the filler "A" for the questions after the end of a short list, and
\* nothing beyond N.  Stated here for runs whose exam_info was valid at every
\* step.
C3_ListFillsEveryQuestion ==
    (last.op = "list" /\ valid_so_far)
    => /\ DOMAIN answers = KeysUpTo(total_questions)
       /\ \A i \in 1..total_questions :
            /\ Str(i) \in DOMAIN answers
            /\ answers[Str(i)] =
                 IF i <= Len(last.answers_list) THEN Upper(last.answers_list[i])
                 ELSE <<"A">>

\* C4: right after set_answers_from_sections(sections) has returned, every
\* question 1..total_questions has a token and no other key is present.
\* Stated here for runs whose exam_info was valid at every step.
C4_SectionsCoverEveryQuestion ==
    (last.op = "sections" /\ ~last.raised /\ valid_so_far)
    => DOMAIN answers = KeysUpTo(total_questions)

\* C5: after a call of set_exam_info or load_existing_config the config never
\* holds total_questions <= 0 or a passing_score outside [0, 100].
C5_ExamInfoValidated ==
    last.op \in {"set_exam_info", "load_existing_config"}
    => /\ total_questions > 0
       /\ passing_score >= 0 /\ passing_score <= 100

(***************************************************************************)
(* Claims about SimpleHybridDemo.                                          *)
(***************************************************************************)
Scored == stage = "done" /\ ~results.error

KeySize == Cardinality(DOMAIN answer_key)

\* the detected and the expected token of question q
DetectedAt(q) == Get(detected_answers, Str(q), <<>>)
ExpectedAt(q) == Get(answer_key, Str(q), <<>>)

\* the questions of detailed_comparison recorded with a status
WithStatus(st) ==
    {q \in 1..Len(results.detailed_comparison) :
        results.detailed_comparison[q].status = st}

\* C6: calculate_score classifies every question 1..N: detected token empty
\* or absent => blank; equal to the expected token => correct; otherwise
\* incorrect; and the counters agree with the statuses recorded in
\* detailed_comparison.
C6_Classification ==
    Scored
    => /\ Len(results.detailed_comparison) = KeySize
       /\ \A q \in 1..KeySize :
            /\ results.detailed_comparison[q].question = q
            /\ DetectedAt(q) = <<>>
                 => results.detailed_comparison[q].status = "blank"
            /\ (DetectedAt(q) # <<>> /\ DetectedAt(q) = ExpectedAt(q))
                 => results.detailed_comparison[q].status = "correct"
            /\ (DetectedAt(q) # <<>> /\ DetectedAt(q) # ExpectedAt(q))
                 => results.detailed_comparison[q].status = "incorrect"
       /\ results.score_summary.correct = Cardinality(WithStatus("correct"))
       /\ results.score_summary.incorrect = Cardinality(WithStatus("incorrect"))
       /\ results.score_summary.blank = Cardinality(WithStatus("blank"))

\* C6's case: a scored sheet with a correct, an incorrect and a blank question
C6_Witness ==
    /\ Scored
    /\ results.score_summary.correct >= 1
    /\ results.score_summary.incorrect >= 1
    /\ results.score_summary.blank >= 1

\* the image's marks that fall in the row of question q
MarksOf(q) ==
    {i \in 1..Len(demo_input.bubbles) : QuestionOf(demo_input.bubbles[i][2]) = q}

\* C7: in an image run through convert_bubbles_to_answers and calculate_score,
\* a question with no mark has the empty token and is classified blank; a
\* sheet with no mark at all scores 0 correct, 0 incorrect, N blank, 0 percent.
C7_NoMarkIsBlank ==
    (Scored /\ demo_input.kind = "image")
    => /\ \A q \in 1..KeySize :
            MarksOf(q) = {}
            => /\ DetectedAt(q) = <<>>
               /\ results.answers[Str(q)] = <<>>
               /\ results.detailed_comparison[q].status = "blank"
       /\ demo_input.bubbles = <<>>
            => /\ results.score_summary.correct = 0
               /\ results.score_summary.incorrect = 0
               /\ results.score_summary.blank = KeySize
               /\ results.score_summary.score_percentage = [num |-> 0, den |-> 1]

\* C7's case: an image with no marks, scored
C7_Witness ==
    /\ Scored /\ demo_input.kind = "image" /\ demo_input.bubbles = <<>>
    /\ results.score_summary.blank = 15

\* every question's detected token is the expected token
PerfectSheet == \A q \in 1..KeySize : DetectedAt(q) = ExpectedAt(q)

\* C8: a sheet whose detected token equals the expected token for every
\* question 1..N scores correct = N, incorrect = 0, blank = 0 and 100 percent.
C8_PerfectSheet ==
    (Scored /\ PerfectSheet)
    => /\ results.score_summary.correct = KeySize
       /\ results.score_summary.incorrect = 0
       /\ results.score_summary.blank = 0
       /\ results.score_summary.score_percentage = [num |-> 100, den |-> 1]

\* C8's case: the demo's own 15-question key handed back as the sheet
C8_Witness ==
    /\ Scored /\ PerfectSheet
    /\ answer_key = DemoKey
    /\ results.score_summary.total_questions = 15

\* a token normalised for comparison: trailing blanks stripped, letters
\* upper-cased
Normalised(token) == Upper(RStrip(token))

\* C9: a detected token that differs from the expected token only by letter
\* case or only by trailing whitespace is classified correct.
C9_NormalisedComparison ==
    Scored
    => \A q \in 1..KeySize :
          (DetectedAt(q) # <<>> /\ Normalised(DetectedAt(q)) = Normalised(ExpectedAt(q)))
          => results.detailed_comparison[q].status = "correct"

(***************************************************************************)
(* Claims about improved_position_to_choice.                               *)
(***************************************************************************)
\* the boundaries strictly greater than x
Above(x) == {i \in 1..Len(boundaries) : 10 * x < boundaries[i]}

\* C10: improved_position_to_choice returns the letter of the first boundary
\* strictly greater than x, and E for every x at or beyond the last boundary;
\* x = 100 gives A, x = 1000 gives C, x = 2000 gives E, whatever y and
\* question_num are.
C10_FirstBoundaryAbove ==
    choice # NoChoice
    => LET x == position[1]
       IN /\ Above(x) # {}
               => choice = choices[CHOOSE i \in Above(x) : \A j \in Above(x) : i <= j]
          /\ Above(x) = {} => choice = "E"
          /\ x = 100 => choice = "A"
          /\ x = 1000 => choice = "C"
          /\ x = 2000 => choice = "E"

\* C10's case: a mark right of every boundary, in the open upper bucket
C10_Witness ==
    /\ choice = "E"
    /\ position[1] = 2000 /\ position[2] = 3000 /\ question_num = 7

\* the detected entries for the questions 1..N
WithinKey(detected) ==
    [k \in (DOMAIN detected) \cap KeysUpTo(KeySize) |-> detected[k]]

\* the questions 1..N answered with the expected token / with another token
AnsweredRight ==
    {q \in 1..KeySize : DetectedAt(q) # <<>> /\ DetectedAt(q) = ExpectedAt(q)}

AnsweredWrong ==
    {q \in 1..KeySize : DetectedAt(q) # <<>> /\ DetectedAt(q) # ExpectedAt(q)}

\* C29: for every detected_answers the result of calculate_score has
\* correct + incorrect + blank = total_questions = len(answer_key);
\* "answers" and "detailed_comparison" hold one entry per question 1..N,
\* detailed_comparison in ascending question order; score_percentage is
\* correct / total_questions * 100, between 0 and 100; and the detected
\* entries for question numbers outside 1..N change no count.
C29_ScoreSummary ==
    Scored
    => LET summary == results.score_summary
           percentage == summary.score_percentage
       IN /\ summary.correct + summary.incorrect + summary.blank
               = summary.total_questions
          /\ summary.total_questions = KeySize
          /\ DOMAIN results.answers = KeysUpTo(KeySize)
          /\ Len(results.detailed_comparison) = KeySize
          /\ \A q \in 1..KeySize : results.detailed_comparison[q].question = q
          /\ percentage.num * summary.total_questions
               = 100 * summary.correct * percentage.den
          /\ 0 <= percentage.num /\ percentage.num <= 100 * percentage.den
          /\ summary.correct = Cardinality(AnsweredRight)
          /\ summary.incorrect = Cardinality(AnsweredWrong)
          /\ summary
               = CalculateScore(answer_key, WithinKey(detected_answers)).score_summary

\* C29's case: a sheet scored with a right answer, a wrong answer, and a
\* detected entry for question N + 1
C29_Witness ==
    /\ Scored
    /\ Str(KeySize + 1) \in DOMAIN detected_answers
    /\ detected_answers[Str(KeySize + 1)] # <<>>
    /\ results.score_summary.correct = 1
    /\ results.score_summary.incorrect = 1

(***************************************************************************)
(* Claims about the two lookups together.                                  *)
(***************************************************************************)
\* the place of a symbol in its alphabet
IndexIn(alphabet, c) == CHOOSE i \in DOMAIN alphabet : alphabet[i] = c

\* the token convert_bubbles_to_answers gave the i-th mark (the sheet holds
\* that mark alone, so the dict has one entry)
SymbolOf(i) ==
    LET d == lookup_answers[i]
    IN d[CHOOSE k \in DOMAIN d : TRUE]

LettersReturned == lookup_letters # NoLetters
AnswersReturned ==
    /\ lookup_answers # NoAnswers
    /\ \A i \in 1..2 : Cardinality(DOMAIN lookup_answers[i]) = 1

\* C11: the boundary lookup is monotonic: for x1 < x2 the alphabet index of
\* the letter improved_position_to_choice gives x1 is at most that of x2, and
\* so is the index (in the 13-symbol alphabet) of the symbol the column mapping
\* of convert_bubbles_to_answers gives.
C11_Monotonic ==
    lookup_xs[1] < lookup_xs[2]
    => /\ LettersReturned
            => /\ \A i \in 1..2 : \E k \in DOMAIN choices : choices[k] = lookup_letters[i]
               /\ IndexIn(choices, lookup_letters[1]) <= IndexIn(choices, lookup_letters[2])
       /\ lookup_answers # NoAnswers
            => /\ AnswersReturned
               /\ \A i \in 1..2 : Len(SymbolOf(i)) = 1
               /\ \A i \in 1..2 : \E k \in DOMAIN column_chars : column_chars[k] = SymbolOf(i)[1]
               /\ IndexIn(column_chars, SymbolOf(1)[1]) <= IndexIn(column_chars, SymbolOf(2)[1])

\* C11's case: two marks, x1 < x2, that both lookups tell apart
C11_Witness ==
    /\ lookup_xs = <<259, 1001>>
    /\ lookup_letters = <<"B", "D">>
    /\ AnswersReturned
    /\ SymbolOf(1) = <<"-">> /\ SymbolOf(2) = <<"2">>

\* C12: no mark is rejected: for every x, also negative or far beyond the
\* calibrated range, improved_position_to_choice returns a letter of A..E
\* (A below the range, E beyond it) and the column mapping of
\* convert_bubbles_to_answers returns one of the 13 symbols (the first below
\* the range, "9" beyond it); neither raises.
C12_NeverRejected ==
    /\ LettersReturned
         => \A i \in 1..2 :
              /\ lookup_letters[i] \in {"A", "B", "C", "D", "E"}
              /\ lookup_xs[i] < 0 => lookup_letters[i] = "A"
              /\ lookup_xs[i] >= 1744 => lookup_letters[i] = "E"
    /\ lookup_answers # NoAnswers
         => /\ AnswersReturned
            /\ \A i \in 1..2 :
                 /\ Len(SymbolOf(i)) = 1
                 /\ SymbolOf(i)[1] \in {column_chars[k] : k \in DOMAIN column_chars}
                 /\ lookup_xs[i] < 0 => SymbolOf(i) = <<"±">>
                 /\ lookup_xs[i] >= 2600 => SymbolOf(i) = <<"9">>

\* C12's case: a mark left of the sheet and a mark far right of the range
C12_Witness ==
    /\ lookup_xs = <<-500, 100000>>
    /\ lookup_letters = <<"A", "E">>
    /\ AnswersReturned
    /\ SymbolOf(1) = <<"±">> /\ SymbolOf(2) = <<"9">>

(***************************************************************************)
(* Claims about calibrate_positions.                                       *)
(***************************************************************************)
\* the range generate_numeric_mapping was called on, and what it returned
MappingReturned == calib_input.kind = "range" /\ mapping # NoMapping

\* a <= x < b for an int x
InRange(x, range) ==
    /\ ~FloatLess(FloatOf(x), range.start_x)
    /\ FloatLess(FloatOf(x), range.end_x)

\* C13: generate_numeric_mapping(x_min, x_max) partitions [x_min, x_max] into
\* 13 contiguous ranges of equal width, labelled ±, -, +, 0, ..., 9 in this
\* order: the first starts at x_min, each starts where the one before ends,
\* the last ends at x_max; over [0, 1300] the columns are 100 wide, x = 50 is
\* in ±, x = 150 in -, x = 1250 in 9.
C13_MappingPartitions ==
    MappingReturned
    => /\ Len(mapping) = NumColumns
       /\ \A k \in 1..NumColumns : mapping[k].label = column_chars[k]
       /\ mapping[1].start_x = FloatOf(calib_input.x_min)
       /\ \A k \in 1..(NumColumns - 1) : mapping[k + 1].start_x = mapping[k].end_x
       /\ mapping[NumColumns].end_x = FloatOf(calib_input.x_max)
       \* equal widths: end_k - start_k = end_1 - start_1
       /\ \A k \in 1..NumColumns :
            FixAdd(mapping[k].end_x, mapping[1].start_x)
              = FixAdd(mapping[1].end_x, mapping[k].start_x)
       /\ (calib_input.x_min = 0 /\ calib_input.x_max = 1300)
            => /\ \A k \in 1..NumColumns :
                    /\ mapping[k].start_x = FloatOf(100 * (k - 1))
                    /\ mapping[k].end_x = FloatOf(100 * k)
               /\ InRange(50, mapping[1]) /\ mapping[1].label = "±"
               /\ InRange(150, mapping[2]) /\ mapping[2].label = "-"
               /\ InRange(1250, mapping[13]) /\ mapping[13].label = "9"

\* analyze_numeric_positions returned a result for the file's sample
Analyzed ==
    /\ calib_input.kind = "file"
    /\ calib_stage \in {"analyzed", "done"}

\* the boundaries of the result in alphabet order: ±, -, +, 0, ..., 9
BoundariesOf(result) == result.sign_boundaries \o result.digit_boundaries

\* C14: for a sample with extremes x_min and x_max the table is built with
\* column_width = (x_max - x_min) / (num_columns - 1) and
\* boundary[i] = x_min + (i + 0.5) * column_width for exactly
\* i = 0 .. num_columns - 2: 12 boundaries, none for the last symbol.
C14_TwelveBoundaries ==
    (Analyzed /\ ~analysis_result.empty)
    => LET x_min == analysis_result.x_coordinate_range[1]
           x_max == analysis_result.x_coordinate_range[2]
           table == BoundariesOf(analysis_result)
       IN /\ analysis_result.column_width = FloatDiv(x_max - x_min, NumColumns - 1)
          /\ Len(table) = NumColumns - 1
          /\ \A i \in 0..(NumColumns - 2) :
               i + 1 \in DOMAIN table
               /\ table[i + 1]
                    = FloatAdd(x_min, FloatMulHalf(i, analysis_result.column_width))

\* C15: for every non-empty sample the boundaries, in alphabet order, are
\* strictly increasing, also when the sample is a single mark or all marks
\* have the same x.
C15_StrictlyIncreasing ==
    (Analyzed /\ ~analysis_result.empty)
    => LET table == BoundariesOf(analysis_result)
       IN \A k \in 1..(Len(table) - 1) : FloatLess(table[k], table[k + 1])

\* C16: calibration of a readable results file in which no record carries a
\* "position" fails with a CalibrationError: no result is returned and no
\* boundary table is produced.
C16_NoSamplesRaises ==
    (Analyzed /\ calib_input.readable /\ AllPositions(calib_input.data) = <<>>)
    => /\ calib_raised = "CalibrationError"
       /\ calibration = "pending"
       /\ BoundariesOf(analysis_result) = <<>>

(***************************************************************************)
(* Claims about convert_bubbles_to_answers.                                *)
(***************************************************************************)
\* an image's marks have been converted
Converted == demo_input.kind = "image" /\ stage \in {"converted", "done"}

\* the marks of the image whose y the function row sends to question q
MarksInRow(row(_), q) ==
    {i \in 1..Len(demo_input.bubbles) : row(demo_input.bubbles[i][2]) = q}

\* floor(y / row_height) clamped to [1, total_questions]
FloorRow(y) == Max(1, Min(LastRow, y \div RowHeight))

\* floor(y / row_height) + 1 clamped to [1, total_questions]
FloorRowPlusOne(y) == Max(1, Min(LastRow, (y \div RowHeight) + 1))

\* the questions 1..15 get their marks by the function row: a question has a
\* token exactly if some mark is sent to it, and the token has one symbol per
\* mark sent to it, up to three
GroupedBy(row(_)) ==
    \A q \in 1..LastRow :
       /\ Str(q) \in DOMAIN detected_answers <=> MarksInRow(row, q) # {}
       /\ Str(q) \in DOMAIN detected_answers
            => Len(detected_answers[Str(q)])
                 = Min(MaxCharacters, Cardinality(MarksInRow(row, q)))

\* C17 as claimed: each mark (x, y) goes to the question floor(y / 100)
\* clamped to [1, 15], so every mark belongs to exactly one question of 1..15.
C17_RowIsFloor ==
    Converted
    => /\ DOMAIN detected_answers \subseteq KeysUpTo(LastRow)
       /\ GroupedBy(FloorRow)

\* C17 as amended: each mark (x, y) goes to the question floor(y / 100) + 1
\* clamped to [1, 15], so every mark belongs to exactly one question of 1..15.
C17_RowIsFloorPlusOne ==
    Converted
    => /\ DOMAIN detected_answers \subseteq KeysUpTo(LastRow)
       /\ GroupedBy(FloorRowPlusOne)

\* C17's case: marks above the sheet, in the second row and far below the
\* sheet go to the questions 1, 2 and 15
C17_Witness ==
    /\ Converted
    /\ {demo_input.bubbles[i][2] : i \in 1..Len(demo_input.bubbles)} = {-10, 150, 9000}
    /\ DOMAIN detected_answers = {Str(1), Str(2), Str(15)}

\* the x of the marks of question q, and the j-th smallest of them (marks
\* counted one by one)
XsOf(q) == {demo_input.bubbles[i][1] : i \in MarksOf(q)}
CountBelow(q, x) == Cardinality({i \in MarksOf(q) : demo_input.bubbles[i][1] < x})
CountUpTo(q, x) == Cardinality({i \in MarksOf(q) : demo_input.bubbles[i][1] <= x})
NthSmallestX(q, j) == CHOOSE x \in XsOf(q) : CountBelow(q, x) < j /\ j <= CountUpTo(q, x)

\* C18: for a question with k marks the token is the concatenation, in
\* ascending x order, of the symbols of the min(k, 3) marks with the smallest
\* x; the marks after the first three by x never contribute and the token is
\* never longer than 3.
C18_FirstThreeByX ==
    Converted
    => \A q \in 1..LastRow :
          MarksOf(q) # {}
          => /\ Str(q) \in DOMAIN detected_answers
             /\ LET token == detected_answers[Str(q)]
                IN /\ Len(token) = Min(Cardinality(MarksOf(q)), MaxCharacters)
                   /\ Len(token) <= 3
                   /\ \A j \in 1..Len(token) :
                        token[j] = column_chars[CharIdx(NthSmallestX(q, j)) + 1]

\* C18's case: four marks in one row, detected right to left; the rightmost
\* ("9") is dropped
C18_Witness ==
    /\ Converted
    /\ demo_input.bubbles = << <<2450, 150>>, <<1450, 150>>, <<130, 150>>, <<-40, 150>> >>
    /\ detected_answers = DictOf(<< <<Str(2), <<"±", "±", "4">> >> >>)

\* one x inside each of the 13 columns
ColumnCentres == {ColumnWidth * c + ColumnWidth \div 2 : c \in 0..LastColumn}

\* the sheets with one to three marks in the row of question q, each in any
\* column; a fourth mark in a row is never read and two x of one column give
\* the same symbol, so these sheets produce every token the row can get
RowSheets(q) ==
    {[i \in 1..Len(xs) |-> <<xs[i], RowHeight * (q - 1) + RowHeight \div 2>>] :
        xs \in SeqsOf(ColumnCentres, 1, MaxCharacters)}

Producible(q, token) ==
    \E bubbles \in RowSheets(q) :
       LET converted == ConvertBubblesToAnswers(bubbles)
       IN Str(q) \in DOMAIN converted /\ converted[Str(q)] = token

\* C19: every token of the answer key of SimpleHybridDemo is a token the
\* position mapping can produce: for each key entry some set of marks makes
\* convert_bubbles_to_answers output that token for that question.
C19_KeyTokensProducible ==
    (answer_key = DemoKey /\ stage = "start")
    => \A q \in 1..LastRow : Producible(q, answer_key[Str(q)])

\* the symbols (as indexes of the alphabet) whose recommended_mapping range
\* contains x
MappingSymbols(result, x) ==
    {k \in 1..Len(result.recommended_mapping) :
        InRange(x, result.recommended_mapping[k])}

\* the symbol of the first boundary greater than x, scanning the boundaries
\* in alphabet order; the last symbol when there is none
FirstBoundaryAbove(result, x) ==
    LET above == {k \in 1..(NumColumns - 1) :
                     FloatLess(FloatOf(x), BoundariesOf(result)[k])}
    IN IF above = {} THEN NumColumns ELSE MinOf(above)

\* C28: the two tables of one analyze_numeric_positions result agree: for
\* every x in [x_min, x_max] the symbol whose recommended_mapping range
\* contains x is the symbol of the first boundary greater than x in
\* alphabet order, which is what the printed map_x_to_numeric_answer
\* returns.  (Stated for samples with x_min < x_max and integer x.)
C28_TablesAgree ==
    (Analyzed /\ ~analysis_result.empty
       /\ analysis_result.x_coordinate_range[1] < analysis_result.x_coordinate_range[2])
    => \A x \in analysis_result.x_coordinate_range[1]
                ..analysis_result.x_coordinate_range[2] :
          /\ MappingSymbols(analysis_result, x)
               = {FirstBoundaryAbove(analysis_result, x)}
          /\ MappingSymbols(analysis_result, x)
               = {MapXToNumericAnswer(analysis_result, x)}

(***************************************************************************)
(* Claims about process_batch.                                             *)
(***************************************************************************)
\* the image fails in detection, conversion or scoring
Fails(image) ==
    IF batch_input.scorer = "simple"
    THEN ~image.readable \/ batch_input.answer_key = EmptyDict
    ELSE (~image.c_detection /\ ~image.readable) \/ ~image.scoring

\* C20: per-sheet failures are isolated in process_batch of SimpleHybridDemo
\* and of HybridOMRScorer: whichever images fail, no exception leaves
\* process_batch, and it returns exactly one record per image, in order: an
\* error record for a failing image, a scored record for any other.
C20_FailuresIsolated ==
    /\ ~batch_raised
    /\ batch_stage # "raised"
    /\ batch_stage = "returned"
         => /\ Len(batch_results) = Len(batch_input.image_files)
            /\ \A i \in 1..Len(batch_results) :
                 /\ batch_results[i].image_path = i
                 /\ batch_results[i].error <=> Fails(batch_input.image_files[i])
                 /\ batch_results[i].error => batch_results[i].method = "failed"
                 /\ (~batch_results[i].error /\ batch_input.scorer = "simple")
                      => batch_results[i].results.score_summary.total_questions = 15

\* C20's case: a batch of three images of which the second fails (its C
\* detection fails and the image cannot be read) has returned
C20_Witness ==
    /\ batch_stage = "returned"
    /\ batch_input.scorer = "hybrid"
    /\ Len(batch_input.image_files) = 3
    /\ batch_input.image_files[2] =
         [c_detection |-> FALSE, readable |-> FALSE, scoring |-> TRUE]
    /\ [i \in 1..3 |-> batch_results[i].error] = <<FALSE, TRUE, FALSE>>

FailedRecords == {i \in 1..Len(batch_results) : batch_results[i].error}

\* C22: every failed sheet is visible in the report:
\* generate_performance_report sets failed_detections to the number of
\* records carrying "error" and successful_detections to the number of the
\* others, the two add up to total_images = len(results), and every failed
\* record is in detailed_results with status "failed" and its error text.
C22_FailuresVisible ==
    batch_stage = "reported"
    => /\ report.summary.failed_detections = Cardinality(FailedRecords)
       /\ report.summary.successful_detections
            = Len(batch_results) - Cardinality(FailedRecords)
       /\ report.summary.successful_detections + report.summary.failed_detections
            = report.summary.total_images
       /\ report.summary.total_images = Len(batch_results)
       /\ \A i \in FailedRecords :
            \E j \in 1..Len(report.detailed_results) :
               /\ report.detailed_results[j].image = batch_results[i].image_path
               /\ report.detailed_results[j].status = "failed"
               /\ report.detailed_results[j].error = batch_results[i].message
               /\ batch_results[i].message
                    \in {"Could not load image", "division by zero",
                         "score_with_answers raised"}

\* C22's case: the report of a batch with two failed records and one
\* scored record
C22_Witness ==
    /\ batch_stage = "reported"
    /\ Cardinality(FailedRecords) = 2
    /\ Len(batch_results) = 3
    /\ report.summary.failed_detections = 2

(***************************************************************************)
(* Claims about HybridOMRScorer.process_single_image.                      *)
(***************************************************************************)
\* C23: the record handed to score_with_answers has the same shape on both
\* detection paths: the marks of the C detector reach the scorer under the
\* key the Python fallback uses, as a list of (x, y) positions, and none of
\* them is dropped.
C23_SameShape ==
    pc = "score"
    => /\ DOMAIN hybrid_bubbles
            = DOMAIN DetectBubblesPythonFallback(image_files[Current]).bubbles
       /\ hybrid_method = "C-based"
            => \A k \in DOMAIN hybrid_bubbles : hybrid_bubbles[k] = c_output.marks

\* the names of the calls of a trace
CallNames(t) == [j \in 1..Len(t) |-> t[j].call]

\* C26: in process_single_image C detection is attempted first; the Python
\* fallback is called only after the C attempt raised, and then always;
\* detection_method is "C-based" exactly when the C attempt succeeded and
\* "Python fallback" exactly when it failed and the fallback succeeded;
\* scoring runs once, after detection; a failure of the fallback or of the
\* scoring is not retried and process_batch records the image with
\* detection_method "failed".
C26_DetectionOrder ==
    /\ Len(traces) = Len(hybrid_results)
    /\ \A i \in 1..Len(traces) :
         LET t == traces[i]
             r == hybrid_results[i]
             last_call == t[Len(t)]
         IN /\ CallNames(t) \in
                 {<<"detect_bubbles_c", "score_with_answers">>,
                  <<"detect_bubbles_c", "detect_bubbles_python_fallback">>,
                  <<"detect_bubbles_c", "detect_bubbles_python_fallback",
                    "score_with_answers">>}
            /\ t[1].raised <=> t[2].call = "detect_bubbles_python_fallback"
            /\ image_files[i].c_run \in {"no_binary", "nonzero"} => t[1].raised
            /\ last_call.call = "detect_bubbles_python_fallback" => last_call.raised
            /\ Len(t) = 3 => ~t[2].raised
            /\ r.method = "C-based" <=> (~t[1].raised /\ ~last_call.raised)
            /\ r.method = "Python fallback" <=> (t[1].raised /\ ~last_call.raised)
            /\ r.method = "failed" <=> last_call.raised
            /\ r.error <=> last_call.raised
    /\ CallNames(calls) \in
         {<<>>, <<"detect_bubbles_c">>,
          <<"detect_bubbles_c", "detect_bubbles_python_fallback">>}
    /\ pc = "except" => (Len(calls) = 1 /\ calls[1].raised)
    /\ pc = "score"
         => /\ ~calls[Len(calls)].raised
            /\ hybrid_method
                 = (IF calls[1].raised THEN "Python fallback" ELSE "C-based")

\* C26's case: a batch has returned in which the output of the first
\* image's C run could not be loaded, the fallback detected and the scoring
\* returned, and the second image was detected by the C run and its scoring
\* raised
C26_Witness ==
    /\ pc = "returned"
    /\ Len(image_files) = 2
    /\ image_files[1].c_run = "corrupt"
    /\ hybrid_results[1].method = "Python fallback"
    /\ Len(traces[1]) = 3
    /\ ~traces[2][1].raised
    /\ hybrid_results[2].method = "failed"

\* C27: across a batch, what detect_bubbles_c returns for an image is the
\* output the C run wrote for that image: a json file an earlier image's run
\* left in the output directory is never returned for a later image, and
\* when the C run of the image writes no output the call raises.
C27_OwnOutput ==
    /\ (pc = "score" /\ hybrid_method = "C-based") => c_output.image = Current
    /\ (pc \in {"score", "except"} /\ image_files[Current].c_run = "silent")
         => calls[1].raised

(***************************************************************************)
(* Claims about ConfigConverter.                                           *)
(***************************************************************************)
\* the keys of the answer key are "1" .. "n"
Contiguous(key) == DOMAIN key = KeysUpTo(Cardinality(DOMAIN key))

\* both conversions of the round trip that started from `start` are done
RoundTripDone(start) == conv_input.start = start /\ conversions = 2

\* C24: the Python -> C -> Python round trip is lossless for the answer
\* key: for an answer key with the contiguous keys "1".."n" and tokens over
\* ±, +, -, 0..9 without trailing whitespace, c_json_to_python_config of
\* the output of python_to_c_json gives an answer_key equal to the original.
C24_PythonRoundTrip ==
    (RoundTripDone("python") /\ Contiguous(conv_input.answer_key))
    => python_config = conv_input.answer_key

\* C24's case: the round trip of a key with two entries, one with ± and
\* one longer than an entry is wide, is done
C24_Witness ==
    /\ RoundTripDone("python")
    /\ DOMAIN conv_input.answer_key = {<<"1">>, <<"2">>}
    /\ conv_input.answer_key[<<"1">>] = <<"±", "1", "2">>
    /\ conv_input.answer_key[<<"2">>] = <<"-", "1", "2", "3", "4", "5">>
    /\ c_config[1] = <<"&", "1", "2", " ", " ">>

\* C25: the C -> Python -> C round trip is lossless for the answer list: for
\* an AnswerList whose entries are strings over +, -, &, 0..9 followed by
\* any number of trailing spaces, python_to_c_json of the output of
\* c_json_to_python_config gives an AnswerList identical to the original,
\* entry by entry.
C25_CRoundTrip ==
    RoundTripDone("c") => c_config = conv_input.AnswerList

\* the numbers whose decimal string is a key of the answer key
KeyNumbers(key) == {k \in 1..(MaxEntries + 1) : Str(k) \in DOMAIN key}

\* C30: for every Python answer key, contiguous or not, python_to_c_json
\* puts the token of each entry k at position k of AnswerList (± replaced
\* by &, padded with spaces to at least 5 characters): no entry of the key
\* is dropped and no position is filled with a blank that is not in the key.
C30_EntryAtItsPosition ==
    (conv_input.start = "python" /\ conversions = 1)
    => /\ \A k \in KeyNumbers(conv_input.answer_key) :
            /\ k <= Len(c_config)
            /\ RStrip(c_config[k])
                 = Replace(conv_input.answer_key[Str(k)], "±", "&")
            /\ Len(c_config[k]) >= EntryWidth
       /\ \A i \in 1..Len(c_config) : i \in KeyNumbers(conv_input.answer_key)

====
